---------------------------- MODULE Spec2Model ----------------------------
(***************************************************************************)
(* pydevice2mqtt: the configuration merge of DeviceBridge.update_config    *)
(* (src/src/pydevice2mqtt/pydevice2mqtt.py) and the device class schemas   *)
(* of src/src/pydevice2mqtt/remote_devices.py.                             *)
(*                                                                         *)
(* Python values are records [type, repr]; a dict is a function from its   *)
(* keys; a list is a sequence.  The YAML file is the dict it holds: the    *)
(* dump keeps keys and values and drops the insertion order of the keys.   *)
(***************************************************************************)
EXTENDS Integers, Sequences, FiniteSets, TLC

VARIABLES
    config_file,   \* the configuration file: [is_file, content]
    before,        \* history: the configuration file when the last call began
    call,          \* history: the arguments of the last update_config call
    raised,        \* history: the exception the last call ended with, or NoError
    pc,            \* "idle", or "returned" right after a call
    imported,      \* the modules remote_devices.py imported: [gpiozero, espeak]
    bridge,        \* the DeviceBridge built from the file, or NoBridge
    op,            \* history: the last operation on the bridge
    faulted        \* history: some inbound message made a handler raise

vars == <<config_file, before, call, raised, pc, imported, bridge, op, faulted>>

---------------------------------------------------------------------------
(* Bounds of the model *)

\* the most devices one update_config call proposes
MaxBatch == 2

---------------------------------------------------------------------------
(* Python values and dicts *)

PyStr(s) == [type |-> "str", repr |-> s]

PyInt(s) == [type |-> "int", repr |-> s]

PyBool(s) == [type |-> "bool", repr |-> s]

PyFloat(s) == [type |-> "float", repr |-> s]

PyNone == [type |-> "NoneType", repr |-> "None"]

EmptyDict == [k \in {} |-> PyStr("")]

\* mqtt_settings: dict = None
None == [is_none |-> TRUE, dict |-> EmptyDict]

Given(d) == [is_none |-> FALSE, dict |-> d]

\* d |= e : the keys of e are set in d, the other keys of d are kept
DictUpdate(d, e) ==
    [k \in (DOMAIN d) \cup (DOMAIN e) |-> IF k \in DOMAIN e THEN e[k] ELSE d[k]]

DictWithout(d, key) == [k \in (DOMAIN d) \ {key} |-> d[k]]

SeqToSet(s) == {s[i] : i \in DOMAIN s}

NoError == "NoError"

---------------------------------------------------------------------------
(* remote_devices.py: the device classes and their required configuration *)

BASE_CONFIG_REQ == [name |-> "str"]

CONFIG_REQ(cls) ==
    CASE cls = "ArbitrarySensor" ->
            [device_class |-> "str", unit_of_measurement |-> "str"]
      [] cls = "RpiGpio" ->
            [device_class |-> "str", pin |-> "int", inverted |-> "bool"]
      [] cls = "RpiRgb" ->
            [device_class |-> "str", pin_r |-> "int", pin_g |-> "int",
             pin_b |-> "int", active_high |-> "bool", pwm_led |-> "bool"]
      [] cls = "ESpeakTTS" ->
            [device_class |-> "str", voice |-> "str", rate |-> "int",
             pitch |-> "int"]
      [] cls = "SubprocessCall" ->
            [device_class |-> "str", exec_path |-> "str", arguments |-> "str",
             looptime |-> "int"]

\* config_req = cls._CONFIG_REQ.copy(); config_req.update(cls._BASE_CONFIG_REQ)
get_config_req(cls) == DictUpdate(CONFIG_REQ(cls), BASE_CONFIG_REQ)

\* the subclasses of RemoteDevice defined in remote_devices.py
supported_device_classes ==
    {"ArbitrarySensor", "RpiGpio", "RpiRgb", "ESpeakTTS", "SubprocessCall"}

---------------------------------------------------------------------------
(* pydevice2mqtt.py: DeviceBridge.update_config *)

\* the file before the first update_config call
NoFile ==
    [is_file |-> FALSE,
     content |-> [remote_devices |-> EmptyDict, mqtt_settings |-> EmptyDict]]

\* the needed keys without the port
needed_mqtt_keys_NoPort ==
    {"ip", "bridge_name", "discovery_prefix", "operating_prefix"}

needed_mqtt_keys ==
    {"ip", "port", "bridge_name", "discovery_prefix", "operating_prefix"}

\* LoadConfig without the refusal of mqtt_settings for an existing file
LoadConfig_NoSettingsGuard(file, mqtt_settings, force_update) ==
    LET complete_config ==
            [remote_devices |-> EmptyDict, mqtt_settings |-> EmptyDict]
    IN  IF file.is_file
        THEN IF force_update /\ ~mqtt_settings.is_none
                             /\ DOMAIN mqtt_settings.dict # {}
             THEN [raised |-> NoError,
                   config |-> DictUpdate(file.content, mqtt_settings.dict)]
             ELSE [raised |-> NoError, config |-> file.content]
        ELSE IF ~mqtt_settings.is_none
        THEN IF needed_mqtt_keys \subseteq DOMAIN mqtt_settings.dict
             THEN [raised |-> NoError,
                   config |->
                       [complete_config EXCEPT !.mqtt_settings =
                           DictUpdate(complete_config.mqtt_settings,
                                      mqtt_settings.dict)]]
             ELSE [raised |-> "AssertionError", config |-> complete_config]
        ELSE [raised |-> "ValueError", config |-> complete_config]

\* lines 67-86: the configuration the merge starts from, or the exception
\* raised before any device is looked at
LoadConfig(file, mqtt_settings, force_update) ==
    LET complete_config ==
            [remote_devices |-> EmptyDict, mqtt_settings |-> EmptyDict]
    IN  IF file.is_file /\ ~mqtt_settings.is_none /\ ~force_update
        THEN [raised |-> "ValueError", config |-> complete_config]
        ELSE IF file.is_file
        THEN IF force_update /\ ~mqtt_settings.is_none
                             /\ DOMAIN mqtt_settings.dict # {}
             THEN [raised |-> NoError,
                   config |-> DictUpdate(file.content, mqtt_settings.dict)]
             ELSE [raised |-> NoError, config |-> file.content]
        ELSE IF ~mqtt_settings.is_none
        THEN IF needed_mqtt_keys \subseteq DOMAIN mqtt_settings.dict
             THEN [raised |-> NoError,
                   config |->
                       [complete_config EXCEPT !.mqtt_settings =
                           DictUpdate(complete_config.mqtt_settings,
                                      mqtt_settings.dict)]]
             ELSE [raised |-> "AssertionError", config |-> complete_config]
        ELSE [raised |-> "ValueError", config |-> complete_config]

\* lines 96-100: a missing key raises KeyError and a value of another type
\* AssertionError inside the try; the handler names a list, not a tuple, of
\* exception classes, so matching it raises TypeError in both cases
CheckConfigReq(cls, device_info) ==
    IF \A key \in DOMAIN get_config_req(cls) :
            /\ key \in DOMAIN device_info
            /\ device_info[key].type = get_config_req(cls)[key]
    THEN NoError
    ELSE "TypeError"

\* CheckDuplicates with a scan that stops before the last existing device
RECURSIVE CheckDuplicates_SkipsLast(_, _, _)
CheckDuplicates_SkipsLast(existing, device_info, i) ==
    IF i >= Len(existing) THEN NoError
    ELSE IF "object_id" \notin DOMAIN existing[i] THEN "KeyError"
    ELSE IF "object_id" \notin DOMAIN device_info THEN "KeyError"
    ELSE IF existing[i]["object_id"] = device_info["object_id"]
         THEN "AssertionError"
    ELSE CheckDuplicates_SkipsLast(existing, device_info, i + 1)

\* lines 104-107: all(existing_device["object_id"] != device_info["object_id"]
\* for existing_device in ...), evaluated from the existing device at index i
RECURSIVE CheckDuplicates(_, _, _)
CheckDuplicates(existing, device_info, i) ==
    IF i > Len(existing) THEN NoError
    ELSE IF "object_id" \notin DOMAIN existing[i] THEN "KeyError"
    ELSE IF "object_id" \notin DOMAIN device_info THEN "KeyError"
    ELSE IF existing[i]["object_id"] = device_info["object_id"]
         THEN "AssertionError"
    ELSE CheckDuplicates(existing, device_info, i + 1)

\* lines 95-107: the body of the loop over one class's device_info_list
CheckDevice(complete_config, cls, device_info, force_update) ==
    IF CheckConfigReq(cls, device_info) # NoError
    THEN CheckConfigReq(cls, device_info)
    ELSE IF cls \in DOMAIN complete_config["remote_devices"] /\ ~force_update
    THEN CheckDuplicates(complete_config["remote_devices"][cls], device_info, 1)
    ELSE NoError

RECURSIVE CheckDeviceList(_, _, _, _, _)
CheckDeviceList(complete_config, cls, device_info_list, force_update, i) ==
    IF i > Len(device_info_list) THEN NoError
    ELSE LET r == CheckDevice(complete_config, cls, device_info_list[i],
                              force_update)
         IN  IF r # NoError THEN r
             ELSE CheckDeviceList(complete_config, cls, device_info_list,
                                  force_update, i + 1)

\* lines 89-107: devices.items() in the insertion order of the dict
RECURSIVE CheckDevices(_, _, _, _)
CheckDevices(complete_config, devices, force_update, n) ==
    IF n > Len(devices.order) THEN NoError
    ELSE LET cls == devices.order[n]
         IN  IF cls \notin supported_device_classes THEN "AttributeError"
             ELSE LET r == CheckDeviceList(complete_config, cls,
                                           devices.lists[cls], force_update, 1)
                  IN  IF r # NoError THEN r
                      ELSE CheckDevices(complete_config, devices,
                                        force_update, n + 1)

\* line 109: complete_config["remote_devices"] |= devices
MergeDevices(complete_config, devices) ==
    [complete_config EXCEPT !["remote_devices"] =
        DictUpdate(complete_config["remote_devices"], devices.lists)]

\* lines 111-112: the file is opened for writing and the configuration dumped
WriteConfig(complete_config) == [is_file |-> TRUE, content |-> complete_config]

\* update_config with the file written before the devices are checked
update_config_WritesFirst(file, devices, mqtt_settings, force_update) ==
    LET loaded == LoadConfig(file, mqtt_settings, force_update)
        checked == CheckDevices(loaded.config, devices, force_update, 1)
    IN  IF loaded.raised # NoError
        THEN [raised |-> loaded.raised, file |-> file]
        ELSE IF checked # NoError
        THEN [raised |-> checked, file |-> WriteConfig(loaded.config)]
        ELSE [raised |-> NoError,
              file |-> WriteConfig(MergeDevices(loaded.config, devices))]

\* lines 65-112: the exception raised, if any, and the file left behind
update_config(file, devices, mqtt_settings, force_update) ==
    LET loaded == LoadConfig(file, mqtt_settings, force_update)
        checked == CheckDevices(loaded.config, devices, force_update, 1)
    IN  IF loaded.raised # NoError
        THEN [raised |-> loaded.raised, file |-> file]
        ELSE IF checked # NoError
        THEN [raised |-> checked, file |-> file]
        ELSE [raised |-> NoError,
              file |-> WriteConfig(MergeDevices(loaded.config, devices))]

\* DeviceBridge.__init__, lines 117-120: the settings a bridge built from the
\* file works with
ReadMqttSettings(file) == file.content["mqtt_settings"]

\* DeviceBridge.__init__, lines 117-121: the device definitions a bridge built
\* from the file constructs its devices from
ReadRemoteDevices(file) == file.content["remote_devices"]

---------------------------------------------------------------------------
(* The arguments update_config is called with *)

\* test/pydevice2mqtt_test.py: EXAMPLE_DATA = {str: "Test_String", int: 42, bool: True}
EXAMPLE_DATA(type) ==
    CASE type = "str" -> PyStr("Test_String")
      [] type = "int" -> PyInt("42")
      [] type = "bool" -> PyBool("True")

\* test/pydevice2mqtt_test.py: EXAMPLE_MQTT_SETTINGS
EXAMPLE_MQTT_SETTINGS ==
    [pw |-> PyStr("secret"), user |-> PyStr("user"), ip |-> PyStr("test"),
     port |-> PyInt("1883"), bridge_name |-> PyStr("TestNode"),
     discovery_prefix |-> PyStr("homeassistant"),
     operating_prefix |-> PyStr("pydevice2mqtt"), logging |-> PyStr("True")]

\* settings that point to another broker and name another bridge
OtherMqttSettings ==
    DictUpdate(EXAMPLE_MQTT_SETTINGS,
               [ip |-> PyStr("other"), bridge_name |-> PyStr("OtherNode")])

\* settings without one of the needed keys
IncompleteMqttSettings == DictWithout(EXAMPLE_MQTT_SETTINGS, "port")

MqttSettingsArgs ==
    {None, Given(EXAMPLE_MQTT_SETTINGS), Given(OtherMqttSettings),
     Given(IncompleteMqttSettings)}

ObjectIds == {"T1", "T2"}

\* a definition that holds every key of the class's get_config_req with a
\* value of the required type, and an object_id
ValidDevice(cls, object_id) ==
    DictUpdate([key \in DOMAIN get_config_req(cls) |->
                    EXAMPLE_DATA(get_config_req(cls)[key])],
               [object_id |-> PyStr(object_id)])

\* the definition with one more key than the class requires
WithAdditional(device_info) ==
    DictUpdate(device_info, [additional |-> PyStr("unrequired_info")])

\* the definition with a value of another type under key
Retyped(device_info, key) ==
    [device_info EXCEPT ![key] =
        IF @.type = "int" THEN PyBool("True")
        ELSE IF @.type = "str" THEN PyInt("42")
        ELSE PyStr("Test_String")]

\* the definitions proposed for a supported class that lack a key of
\* ValidDevice, hold a value of another type for a required key, or hold one
\* more key
VariedDevices(cls) ==
    {WithAdditional(ValidDevice(cls, "T1"))}
    \cup {DictWithout(ValidDevice(cls, "T1"), key) :
              key \in DOMAIN ValidDevice(cls, "T1")}
    \cup {Retyped(ValidDevice(cls, "T1"), key) :
              key \in DOMAIN get_config_req(cls)}

\* the (class name, definition) pairs the batches of several devices are
\* drawn from; "Toaster" is no class of remote_devices.py
ProposedPairs ==
    {[cls |-> "ArbitrarySensor", info |-> ValidDevice("ArbitrarySensor", o)] :
        o \in ObjectIds}
    \cup {[cls |-> "RpiGpio", info |-> ValidDevice("RpiGpio", "T1")],
          [cls |-> "Toaster", info |-> ValidDevice("ArbitrarySensor", "T1")]}

\* the pairs proposed alone
VariedPairs ==
    {[cls |-> "ArbitrarySensor", info |-> d] :
        d \in VariedDevices("ArbitrarySensor")}
    \cup {[cls |-> "RpiGpio",
           info |-> Retyped(ValidDevice("RpiGpio", "T1"), "pin")]}

Batches ==
    UNION {[1..n -> ProposedPairs] : n \in 0..MaxBatch}
    \cup {<<p>> : p \in VariedPairs}

\* the class names of the pairs, each once, in the order of first occurrence
RECURSIVE ClassOrder(_, _)
ClassOrder(pairs, i) ==
    IF i = 0 THEN <<>>
    ELSE LET front == ClassOrder(pairs, i - 1)
         IN  IF pairs[i].cls \in SeqToSet(front) THEN front
             ELSE Append(front, pairs[i].cls)

\* the definitions of the pairs of class cls, in order
RECURSIVE ClassList(_, _, _)
ClassList(pairs, cls, i) ==
    IF i = 0 THEN <<>>
    ELSE IF pairs[i].cls = cls
         THEN Append(ClassList(pairs, cls, i - 1), pairs[i].info)
         ELSE ClassList(pairs, cls, i - 1)

\* devices: Dict[str, List[dict]], with the insertion order of its keys
DevicesDict(pairs) ==
    [order |-> ClassOrder(pairs, Len(pairs)),
     lists |-> [cls \in {pairs[i].cls : i \in DOMAIN pairs} |->
                   ClassList(pairs, cls, Len(pairs))]]

---------------------------------------------------------------------------
(* remote_devices.py: the construction of a device *)

\* f"{value}"
Format(value) == value.repr

\* bool(value): an empty str, the int 0 and False are falsy
Truthy(value) ==
    CASE value.type = "bool" -> value.repr = "True"
      [] value.type = "int" -> value.repr # "0"
      [] OTHER -> value.repr # ""

\* hashlib.new("sha1", data).hexdigest()[:16]: the digest is decided by the
\* data and by nothing else; the strings of the model have different digests
Sha1Hex16(data) == "sha1[:16](" \o data \o ")"

\* a publish of the MQTT client: the keyword arguments of the call
Publish(topic, payload, retain, qos) ==
    [topic |-> topic, payload |-> payload, retain |-> retain, qos |-> qos]

\* json.dumps(value): a str that holds the JSON document of the value
JsonDumps(value) == [type |-> "str", json |-> value]

NoDevice == [cls |-> "None"]

\* a constructor or a handler that ended: the exception it raised, the
\* device it leaves, what it published and what it logged
Outcome(raised_, self, published, logged) ==
    [raised |-> raised_, self |-> self, published |-> published,
     logged |-> logged]

get_object_id(self) == self.config["object_id"]

get_id_NoObjectId(self) == self.cls

get_id(self) == self.cls \o "_" \o Format(get_object_id(self))

get_uid(self) == self.uid

get_name(self) == self.config["name"]

\* the first channel of the name in the ordered dict, 0 if there is none
RECURSIVE ChannelIndex(_, _, _)
ChannelIndex(operation_topics, channel_name, i) ==
    IF i > Len(operation_topics) THEN 0
    ELSE IF operation_topics[i].name = channel_name THEN i
    ELSE ChannelIndex(operation_topics, channel_name, i + 1)

_add_channel_NoSubTopic(self, channel_name, sub_topic, on_message) ==
    LET channel == [name |-> channel_name,
                    topic |-> self.operating_prefix,
                    on_message |-> on_message]
        i == ChannelIndex(self.operation_topics, channel_name, 1)
    IN  [self EXCEPT !.operation_topics =
            IF i = 0 THEN Append(self.operation_topics, channel)
            ELSE [self.operation_topics EXCEPT ![i] = channel]]

_add_channel_NoHandler(self, channel_name, sub_topic, on_message) ==
    LET channel == [name |-> channel_name,
                    topic |-> self.operating_prefix \o sub_topic,
                    on_message |-> "None"]
        i == ChannelIndex(self.operation_topics, channel_name, 1)
    IN  [self EXCEPT !.operation_topics =
            IF i = 0 THEN Append(self.operation_topics, channel)
            ELSE [self.operation_topics EXCEPT ![i] = channel]]

\* self._operation_topics[channel_name] = MQTTChannel(prefix + sub_topic, on_message)
_add_channel(self, channel_name, sub_topic, on_message) ==
    LET channel == [name |-> channel_name,
                    topic |-> self.operating_prefix \o sub_topic,
                    on_message |-> on_message]
        i == ChannelIndex(self.operation_topics, channel_name, 1)
    IN  [self EXCEPT !.operation_topics =
            IF i = 0 THEN Append(self.operation_topics, channel)
            ELSE [self.operation_topics EXCEPT ![i] = channel]]

\* the loop over device_settings["opt_attr"].items(): an attribute the
\* configuration holds already ends the loop with a warning
RECURSIVE ApplyOptAttr(_, _, _)
ApplyOptAttr(config, items, i) ==
    IF i > Len(items) THEN [config |-> config, logged |-> <<>>]
    ELSE IF items[i].key \in DOMAIN config
    THEN [config |-> config,
          logged |-> <<[level |-> "WARNING", event |-> "opt_attr required"]>>]
    ELSE ApplyOptAttr(DictUpdate(config, [k \in {items[i].key} |-> items[i].value]),
                      items, i + 1)

\* lines 48-57: the optional attributes of a device definition; a value
\* without items() is given up with a warning
OptAttr(config, device_settings) ==
    IF "opt_attr" \notin DOMAIN device_settings
    THEN [config |-> config, logged |-> <<>>]
    ELSE IF device_settings["opt_attr"].type # "dict"
    THEN [config |-> config,
          logged |-> <<[level |-> "WARNING", event |-> "opt_attr not applied"]>>]
    ELSE ApplyOptAttr(config, device_settings["opt_attr"].items, 1)

\* the keys RemoteDevice.__init__ reads, in the order it reads them
RemoteDeviceReads ==
    <<[of |-> "mqtt_settings", key |-> "operating_prefix"],
      [of |-> "mqtt_settings", key |-> "bridge_name"],
      [of |-> "device_settings", key |-> "object_id"],
      [of |-> "device_settings", key |-> "device_class"],
      [of |-> "device_settings", key |-> "name"],
      [of |-> "mqtt_settings", key |-> "discovery_prefix"],
      [of |-> "mqtt_settings", key |-> "logging"]>>

RemoteDevice__init__(cls, device_settings, mqtt_settings) ==
    IF \E i \in DOMAIN RemoteDeviceReads :
           RemoteDeviceReads[i].key \notin
               (IF RemoteDeviceReads[i].of = "mqtt_settings"
                THEN DOMAIN mqtt_settings ELSE DOMAIN device_settings)
    THEN Outcome("KeyError", NoDevice, <<>>, <<>>)
    ELSE
    LET operating_prefix == Format(mqtt_settings["operating_prefix"])
        bridge_name == Format(mqtt_settings["bridge_name"])
        object_id == device_settings["object_id"]
        uid_string == operating_prefix \o "_" \o bridge_name \o "_"
                          \o cls \o "_" \o Format(object_id)
        uid == Sha1Hex16(uid_string)
        base == [k \in {"device", "name", "unique_id", "object_id"} |->
                    CASE k = "device" ->
                            [type |-> "dict",
                             identifiers |-> <<operating_prefix \o "_" \o bridge_name>>,
                             name |-> mqtt_settings["bridge_name"]]
                      [] k = "name" -> device_settings["name"]
                      [] k = "unique_id" -> PyStr(uid)
                      [] k = "object_id" -> object_id]
        opt == OptAttr(base, device_settings)
        id == get_id([cls |-> cls, config |-> opt.config])
        discovery_prefix == Format(mqtt_settings["discovery_prefix"]) \o "/"
                                \o Format(device_settings["device_class"]) \o "/"
                                \o bridge_name \o "/" \o id \o "/"
        self == [cls |-> cls,
                 uid |-> uid,
                 device_class |-> device_settings["device_class"],
                 config |-> DictUpdate(opt.config,
                                [k \in {"discovery_topic"} |->
                                    PyStr(discovery_prefix \o "config")]),
                 discovery_prefix |-> discovery_prefix,
                 operation_topics |-> <<>>,
                 operating_prefix |-> operating_prefix \o "/" \o bridge_name
                                          \o "/" \o id \o "/",
                 logging_channel |->
                     IF Truthy(mqtt_settings["logging"])
                     THEN [is_none |-> FALSE,
                           topic |-> operating_prefix \o "/" \o bridge_name
                                         \o "/" \o id \o "/" \o "log"]
                     ELSE [is_none |-> TRUE, topic |-> ""]]
    IN  Outcome(NoError, _add_channel(self, "state_topic", "state", "None"),
                <<>>, opt.logged)

\* logging.log(...) and, with a logging channel, a publish on it
_log_remote(self, print_string) ==
    [logged |-> <<[level |-> "DEBUG", event |-> print_string]>>,
     published |->
         IF self.logging_channel.is_none THEN <<>>
         ELSE <<Publish(self.logging_channel.topic, PyStr(print_string),
                        FALSE, 0)>>]

\* self._operation_topics[channel_name].topic
ChannelTopic(self, channel_name) ==
    self.operation_topics[ChannelIndex(self.operation_topics, channel_name, 1)].topic

\* lines 98-118, for a str message: it is published as it is
_update(self, channel_name, message) ==
    <<Publish(ChannelTopic(self, channel_name), message, FALSE, 0)>>

get_discovery_ConfigWins(self) ==
    LET topics == [name \in {self.operation_topics[i].name :
                                i \in DOMAIN self.operation_topics} |->
                      PyStr(ChannelTopic(self, name))]
        auto_config == DictUpdate(topics, self.config)
    IN  <<Format(auto_config["discovery_topic"]),
          DictWithout(auto_config, "discovery_topic")>>

\* {**self._config, **{name: channel.topic ...}}: the topic of a channel
\* replaces an attribute of the channel's name
get_discovery(self) ==
    LET topics == [name \in {self.operation_topics[i].name :
                                i \in DOMAIN self.operation_topics} |->
                      PyStr(ChannelTopic(self, name))]
        auto_config == DictUpdate(self.config, topics)
    IN  <<Format(auto_config["discovery_topic"]),
          DictWithout(auto_config, "discovery_topic")>>

\* dict([channel for ...]): topic and handler of every channel, in order
get_device_topics(self) ==
    [i \in DOMAIN self.operation_topics |->
        [topic |-> self.operation_topics[i].topic,
         on_message |-> self.operation_topics[i].on_message]]

ImportErrorOf(self, err_msg) ==
    LET log == _log_remote(self, err_msg)
    IN  Outcome("ImportError", NoDevice, log.published, log.logged)

ArbitrarySensor__init__(device_settings, mqtt_settings) ==
    IF "device_class" \notin DOMAIN device_settings
    THEN Outcome("KeyError", NoDevice, <<>>, <<>>)
    ELSE
    LET org_device_class == device_settings["device_class"]
        AfterSuper(super) ==
            IF super.raised # NoError THEN super
            ELSE [super EXCEPT !.self =
                     DictUpdate(
                         [super.self EXCEPT !.config =
                             DictUpdate(super.self.config,
                                 [device_class |-> org_device_class,
                                  unit_of_measurement |->
                                      IF "unit_of_measurement" \in DOMAIN device_settings
                                      THEN device_settings["unit_of_measurement"]
                                      ELSE PyStr(""),
                                  value_template |-> PyStr("{{ value_json.value}}")])],
                         [last_value |-> PyNone])]
    IN  AfterSuper(RemoteDevice__init__("ArbitrarySensor",
                       DictUpdate(device_settings,
                                  [device_class |-> PyStr("sensor")]),
                       mqtt_settings))

RpiGpio__init__(device_settings, mqtt_settings, gpiozero) ==
    LET err_msg == "Could not import gpiozero. Unable to create this remote device!"
        Device(self) ==
            IF device_settings["device_class"] = PyStr("binary_sensor")
            THEN [self EXCEPT !.gpiozero_device =
                     [class |-> "DigitalInputDevice", value |-> 0]]
            ELSE IF device_settings["device_class"] = PyStr("switch")
            THEN [_add_channel(self, "command_topic", "set", "_handle_command")
                     EXCEPT !.gpiozero_device =
                         [class |-> "DigitalOutputDevice", value |-> 0]]
            ELSE self
        AfterSuper(super) ==
            IF super.raised # NoError THEN super
            ELSE IF ~gpiozero THEN ImportErrorOf(super.self, err_msg)
            ELSE IF \/ "inverted" \notin DOMAIN device_settings
                    \/ /\ device_settings["device_class"]
                              \in {PyStr("binary_sensor"), PyStr("switch")}
                       /\ "pin" \notin DOMAIN device_settings
            THEN Outcome("KeyError", NoDevice, <<>>, super.logged)
            ELSE [super EXCEPT !.self =
                     Device(DictUpdate(super.self,
                                [inverted |-> device_settings["inverted"],
                                 gpiozero_device |->
                                     [class |-> "None", value |-> 0]]))]
    IN  AfterSuper(RemoteDevice__init__("RpiGpio", device_settings,
                                        mqtt_settings))

RpiRgb__init__(device_settings, mqtt_settings, gpiozero) ==
    LET err_msg == "Could not import gpiozero. Unable to create this remote device!"
        AfterSuper(super) ==
            IF super.raised # NoError THEN super
            ELSE IF ~gpiozero THEN ImportErrorOf(super.self, err_msg)
            ELSE IF {"pin_r", "pin_g", "pin_b", "active_high", "pwm_led"}
                        \subseteq DOMAIN device_settings
            THEN [super EXCEPT !.self =
                     DictUpdate(
                         _add_channel(
                             _add_channel(
                                 [super.self EXCEPT !.config =
                                     DictUpdate(super.self.config,
                                                [schema |-> PyStr("json"),
                                                 rgb |-> PyStr("true")])],
                                 "command_topic", "set", "_on_set"),
                             "rgb_state_topic", "rgb_state", "None"),
                         [gpiozero_device |->
                             [class |-> "RGBLED", value |-> <<0, 0, 0>>]])]
            ELSE Outcome("KeyError", NoDevice, <<>>, super.logged)
    IN  AfterSuper(RemoteDevice__init__("RpiRgb", device_settings,
                                        mqtt_settings))

ESpeakTTS__init__(device_settings, mqtt_settings, espeak) ==
    LET err_msg == "Could not import espeak. Unable to create this remote device!"
        AfterSuper(super) ==
            IF super.raised # NoError THEN super
            ELSE IF ~espeak THEN ImportErrorOf(super.self, err_msg)
            ELSE IF {"voice", "rate", "pitch"} \subseteq DOMAIN device_settings
            THEN [super EXCEPT !.self =
                     DictUpdate(
                         _add_channel(
                             [super.self EXCEPT !.config =
                                 DictUpdate(super.self.config,
                                            [schema |-> PyStr("json")])],
                             "command_topic", "say", "_on_say"),
                         [synth |-> "Sprachsyntheese ist activ!"])]
            ELSE Outcome("KeyError", NoDevice, <<>>, super.logged)
    IN  AfterSuper(RemoteDevice__init__("ESpeakTTS", device_settings,
                                        mqtt_settings))

SubprocessCall__init__(device_settings, mqtt_settings) ==
    LET Created(self, log) ==
            Outcome(NoError,
                    _add_channel(self, "command_topic", "set", "_handle_command"),
                    log.published, log.logged)
        AfterSuper(super) ==
            IF super.raised # NoError THEN super
            ELSE IF "exec_path" \notin DOMAIN device_settings
            THEN Outcome("KeyError", NoDevice, <<>>, super.logged)
            ELSE Created(
                     DictUpdate(super.self,
                         [call |-> [exec_path |-> device_settings["exec_path"],
                                    arguments |->
                                        IF "arguments" \in DOMAIN device_settings
                                        THEN <<device_settings["arguments"]>>
                                        ELSE <<>>],
                          looptime |->
                              IF "looptime" \in DOMAIN device_settings
                              THEN device_settings["looptime"] ELSE PyInt("1"),
                          running_process |-> 0,
                          observation_thread |-> 0]),
                     _log_remote(super.self, "Device created: SubprocessCall"))
    IN  AfterSuper(RemoteDevice__init__("SubprocessCall", device_settings,
                                        mqtt_settings))

\* self._supported_device_classes[remote_device_class](device_settings, mqtt_settings)
NewDevice(cls, device_settings, mqtt_settings, modules) ==
    CASE cls = "ArbitrarySensor" ->
            ArbitrarySensor__init__(device_settings, mqtt_settings)
      [] cls = "RpiGpio" ->
            RpiGpio__init__(device_settings, mqtt_settings, modules.gpiozero)
      [] cls = "RpiRgb" ->
            RpiRgb__init__(device_settings, mqtt_settings, modules.gpiozero)
      [] cls = "ESpeakTTS" ->
            ESpeakTTS__init__(device_settings, mqtt_settings, modules.espeak)
      [] cls = "SubprocessCall" ->
            SubprocessCall__init__(device_settings, mqtt_settings)

---------------------------------------------------------------------------
(* remote_devices.py: the command handlers *)

JSON_OFF == "{\"state\": \"OFF\"}"

JSON_ON == "{\"state\": \"ON\"}"

JSON_ON_RED == "{\"state\": \"ON\", \"color\": {\"r\": 255, \"g\": 0, \"b\": 0}}"

JSON_ON_NO_BLUE == "{\"state\": \"ON\", \"color\": {\"r\": 255, \"g\": 0}}"

JSON_NO_STATE == "{\"color\": 1}"

JSON_LIST == "[1]"

JsonInt(n) == [type |-> "int", int |-> n]

JsonDict(d) == [type |-> "dict", dict |-> d]

\* json.loads(message): text that is no JSON document raises
JsonLoads(message) ==
    CASE message = JSON_OFF ->
            [raised |-> NoError, value |-> JsonDict([state |-> PyStr("OFF")])]
      [] message = JSON_ON ->
            [raised |-> NoError, value |-> JsonDict([state |-> PyStr("ON")])]
      [] message = JSON_ON_RED ->
            [raised |-> NoError,
             value |-> JsonDict([state |-> PyStr("ON"),
                                 color |-> JsonDict([r |-> JsonInt(255),
                                                     g |-> JsonInt(0),
                                                     b |-> JsonInt(0)])])]
      [] message = JSON_ON_NO_BLUE ->
            [raised |-> NoError,
             value |-> JsonDict([state |-> PyStr("ON"),
                                 color |-> JsonDict([r |-> JsonInt(255),
                                                     g |-> JsonInt(0)])])]
      [] message = JSON_NO_STATE ->
            [raised |-> NoError, value |-> JsonDict([color |-> JsonInt(1)])]
      [] message = JSON_LIST ->
            [raised |-> NoError,
             value |-> [type |-> "list", list |-> <<JsonInt(1)>>]]
      [] OTHER ->
            [raised |-> "JSONDecodeError", value |-> JsonDict(EmptyDict)]

\* RpiGpio._handle_command
RpiGpio_handle_command(self, target_state) ==
    LET inverted_state ==
            IF Truthy(self.inverted)
            THEN (IF target_state = "OFF" THEN "ON" ELSE "OFF")
            ELSE target_state
        device == [self EXCEPT !.gpiozero_device.value =
                      IF inverted_state = "ON" THEN 1
                      ELSE IF inverted_state = "OFF" THEN 0
                      ELSE self.gpiozero_device.value]
    IN  Outcome(NoError, device,
                _update(device, "state_topic", PyStr(inverted_state)), <<>>)

\* RpiGpio._handle_pinchange: when_activated calls it with "ON" and
\* when_deactivated with "OFF"
RpiGpio_handle_pinchange(self, target_state) ==
    LET inverted_state ==
            IF Truthy(self.inverted)
            THEN (IF target_state = "OFF" THEN "ON" ELSE "OFF")
            ELSE target_state
    IN  Outcome(NoError, self,
                _update(self, "state_topic", PyStr(inverted_state)), <<>>)

\* RpiRgb._on_set: a KeyError of the command is logged by the device, every
\* other exception leaves the handler
RpiRgb_on_set(self, text) ==
    LET loaded == JsonLoads(text)
        message == loaded.value
        unsupported == _log_remote(self, "Unsupported command structure")
        Unsupported == Outcome(NoError, self, unsupported.published,
                               unsupported.logged)
    IN  IF loaded.raised # NoError THEN Outcome(loaded.raised, self, <<>>, <<>>)
        ELSE IF message.type # "dict" THEN Outcome("TypeError", self, <<>>, <<>>)
        ELSE IF "state" \notin DOMAIN message.dict THEN Unsupported
        ELSE IF message.dict["state"] = PyStr("OFF")
        THEN Outcome(NoError,
                     [self EXCEPT !.gpiozero_device.value = <<0, 0, 0>>],
                     <<>>, <<>>)
        ELSE IF message.dict["state"] = PyStr("ON")
        THEN LET brightness ==
                     IF /\ "brightness" \in DOMAIN message.dict
                        /\ message.dict["brightness"].type = "int"
                     THEN 255 * message.dict["brightness"].int
                     ELSE 255
                 color == IF "color" \in DOMAIN message.dict
                          THEN message.dict["color"]
                          ELSE JsonDict([r |-> JsonInt(brightness),
                                         g |-> JsonInt(brightness),
                                         b |-> JsonInt(brightness)])
             IN  IF color.type # "dict"
                 THEN Outcome("TypeError", self, <<>>, <<>>)
                 ELSE IF \E key \in DOMAIN color.dict :
                             color.dict[key].type # "int"
                 THEN Outcome("TypeError", self, <<>>, <<>>)
                 ELSE IF ~({"r", "g", "b"} \subseteq DOMAIN color.dict)
                 THEN Unsupported
                 ELSE Outcome(NoError,
                         [self EXCEPT !.gpiozero_device.value =
                             <<IF color.dict["r"].int >= 1 THEN 1 ELSE 0,
                               IF color.dict["g"].int >= 1 THEN 1 ELSE 0,
                               IF color.dict["b"].int >= 1 THEN 1 ELSE 0>>],
                         <<>>, <<>>)
        ELSE Outcome(NoError, self, <<>>, <<>>)

\* ESpeakTTS._on_say: the message is a str, it is spoken as it is
ESpeakTTS_on_say(self, msg) ==
    Outcome(NoError, [self EXCEPT !.synth = msg], <<>>, <<>>)

\* the files of the host that subprocess.Popen can execute
Executables == {PyStr("python")}

\* self._subprocess_module.Popen(self._call): the exception it raises
Popen(args) ==
    IF args.exec_path \in Executables THEN NoError ELSE "FileNotFoundError"

\* a handler that ended, with the processes and the threads of the host as
\* it leaves them
Host(outcome, processes, threads) ==
    DictUpdate(outcome, [processes |-> processes, threads |-> threads])

SubprocessCall_handle_command_Multirun(self, target_state, processes, threads, line_521) ==
    IF target_state = "ON" /\ Popen(self.call) = NoError
    THEN Host(Outcome(NoError,
                      [self EXCEPT !.running_process = Len(processes) + 1,
                                   !.observation_thread = Len(threads) + 1],
                      <<>>, <<>>),
              Append(processes, [status |-> "running"]),
              Append(threads, [uid |-> self.uid, pOpen |-> Len(processes) + 1,
                               at |-> "line 484"]))
    ELSE Host(Outcome(NoError, self, <<>>, <<>>), processes, threads)

\* SubprocessCall._handle_command: 0 is None, a process is its index in the
\* processes of the host and a thread its index in the threads. line_521 is
\* what `self._running_process is None` read at line 521 when the handler
\* went on from there after other threads ran, and -1 when it runs in one
\* piece
SubprocessCall_handle_command(self, target_state, processes, threads, line_521) ==
    LET Logged(log) ==
            Host(Outcome(NoError, self, log.published, log.logged),
                 processes, threads)
        read == IF line_521 = -1 THEN self.running_process ELSE line_521
    IN  IF target_state = "ON"
        THEN IF self.running_process # 0
             THEN Logged(_log_remote(self,
                     "Error: Subprocess is still running, multirun not supported"))
             ELSE IF Popen(self.call) # NoError
             THEN Logged(_log_remote(self, Popen(self.call)))
             ELSE Host(Outcome(NoError,
                               [self EXCEPT
                                   !.running_process = Len(processes) + 1,
                                   !.observation_thread = Len(threads) + 1],
                               <<>>, <<>>),
                       Append(processes, [status |-> "running"]),
                       Append(threads,
                              [uid |-> self.uid, pOpen |-> Len(processes) + 1,
                               at |-> "line 484"]))
        ELSE IF target_state = "OFF"
        THEN IF read = 0
             THEN Logged(_log_remote(self, "Process already stopped"))
             ELSE IF self.running_process = 0
             THEN Host(Outcome("AttributeError", self, <<>>, <<>>),
                       processes, threads)
             ELSE Host(Outcome(NoError, self, <<>>, <<>>),
                       [processes EXCEPT ![self.running_process].status =
                           IF @ = "running" THEN "killed" ELSE @],
                       threads)
        ELSE Host(Outcome(NoError, self, <<>>, <<>>), processes, threads)

\* function(msg.payload.decode()): the bound method of the device
CallHandler(self, on_message, message, processes, threads, line_521) ==
    CASE self.cls = "RpiGpio" /\ on_message = "_handle_command" ->
            Host(RpiGpio_handle_command(self, message), processes, threads)
      [] self.cls = "RpiRgb" /\ on_message = "_on_set" ->
            Host(RpiRgb_on_set(self, message), processes, threads)
      [] self.cls = "ESpeakTTS" /\ on_message = "_on_say" ->
            Host(ESpeakTTS_on_say(self, message), processes, threads)
      [] self.cls = "SubprocessCall" /\ on_message = "_handle_command" ->
            SubprocessCall_handle_command(self, message, processes, threads,
                                          line_521)

\* Python's ==: bool, int and float compare by their number, everything
\* else by type and text (the floats of the model are no whole numbers)
Number(value) ==
    IF value.type = "bool"
    THEN (IF value.repr = "True" THEN "1" ELSE "0")
    ELSE value.repr

PyEq(a, b) ==
    IF {a.type, b.type} \subseteq {"bool", "int", "float"}
    THEN Number(a) = Number(b)
    ELSE a = b

\* json.dumps({"value": value})
JsonDumpsValue(value) ==
    PyStr("{\"value\": "
              \o (CASE value.type = "bool" ->
                           (IF value.repr = "True" THEN "true" ELSE "false")
                     [] value.type = "NoneType" -> "null"
                     [] value.type = "str" -> "\"" \o value.repr \o "\""
                     [] OTHER -> value.repr)
              \o "}")

set_value_NewChannel(self, value, force_update) ==
    Outcome(NoError,
            _add_channel([self EXCEPT !.last_value = value],
                         "value_topic", "value", "None"),
            _update(self, "state_topic", JsonDumpsValue(value)), <<>>)

set_value_Always(self, value, force_update) ==
    Outcome(NoError, [self EXCEPT !.last_value = value],
            _update(self, "state_topic", JsonDumpsValue(value)), <<>>)

\* ArbitrarySensor.set_value
set_value(self, value, force_update) ==
    IF PyEq(self.last_value, value) /\ ~force_update
    THEN Outcome(NoError, self, <<>>, <<>>)
    ELSE Outcome(NoError, [self EXCEPT !.last_value = value],
                 _update(self, "state_topic", JsonDumpsValue(value)), <<>>)

---------------------------------------------------------------------------
(* pydevice2mqtt.py: the DeviceBridge *)

NoBridge ==
    [exists |-> FALSE, devices |-> <<>>,
     subscribed_channels_dict |-> [t \in {} |-> [uid |-> "", on_message |-> "None"]],
     bridge_name |-> "", node_channel |-> "",
     loop |-> "stopped", subscriptions |-> {},
     processes |-> <<>>, threads |-> <<>>, thread_published |-> <<>>,
     value_published |-> {}, line_521 |-> -1]

\* yaml.safe_dump writes the keys of a dict sorted, the load keeps them so
SortedClasses ==
    <<"ArbitrarySensor", "ESpeakTTS", "RpiGpio", "RpiRgb", "SubprocessCall",
      "Toaster">>

\* remote_devices.items() and the devices of each class, as one list
RECURSIVE DeviceItems(_, _)
DeviceItems(remote_devices, c) ==
    IF c > Len(SortedClasses) THEN <<>>
    ELSE (IF SortedClasses[c] \in DOMAIN remote_devices
          THEN [i \in DOMAIN remote_devices[SortedClasses[c]] |->
                   [cls |-> SortedClasses[c],
                    device_settings |-> remote_devices[SortedClasses[c]][i]]]
          ELSE <<>>)
         \o DeviceItems(remote_devices, c + 1)

RegistryKeys(devices) == {devices[i].uid : i \in DOMAIN devices}

_get_uid_NoCheck(devices, remote_device_class, device_settings, mqtt_settings) ==
    IF \/ "bridge_name" \notin DOMAIN mqtt_settings
       \/ "object_id" \notin DOMAIN device_settings
    THEN [raised |-> "KeyError", uid |-> ""]
    ELSE [raised |-> NoError,
          uid |-> Format(mqtt_settings["bridge_name"]) \o "_"
                      \o remote_device_class \o "_"
                      \o Format(device_settings["object_id"])]

_get_uid(devices, remote_device_class, device_settings, mqtt_settings) ==
    IF \/ "bridge_name" \notin DOMAIN mqtt_settings
       \/ "object_id" \notin DOMAIN device_settings
    THEN [raised |-> "KeyError", uid |-> ""]
    ELSE LET uid == Format(mqtt_settings["bridge_name"]) \o "_"
                        \o remote_device_class \o "_"
                        \o Format(device_settings["object_id"])
         IN  IF uid \in RegistryKeys(devices)
             THEN [raised |-> "ValueError", uid |-> uid]
             ELSE [raised |-> NoError, uid |-> uid]

\* the definition as the constructor of its device leaves it: the sensor
\* sets device_class to "sensor" for the constructor of RemoteDevice and
\* sets it back when that has returned
DeviceSettingsLeft(cls, device_settings, raised_) ==
    IF /\ cls = "ArbitrarySensor"
       /\ raised_ # NoError
       /\ "device_class" \in DOMAIN device_settings
    THEN DictUpdate(device_settings, [device_class |-> PyStr("sensor")])
    ELSE device_settings

RECURSIVE NewDevices_SkipsFailed(_, _, _, _, _, _)
NewDevices_SkipsFailed(items, i, devices, mqtt_settings, modules, published) ==
    IF i > Len(items)
    THEN [raised |-> NoError, devices |-> devices, published |-> published,
          items |-> items]
    ELSE
    LET Left(uid, device) ==
            [items EXCEPT ![i].device_settings =
                DeviceSettingsLeft(items[i].cls,
                    DictUpdate(items[i].device_settings,
                               [uid |-> PyStr(uid.uid)]),
                    device.raised)]
        Registered(uid, device) ==
            IF device.raised # NoError
            THEN NewDevices_SkipsFailed(Left(uid, device), i + 1, devices, mqtt_settings,
                                        modules, published \o device.published)
            ELSE NewDevices_SkipsFailed(Left(uid, device), i + 1,
                     Append(devices, [uid |-> uid.uid, device |-> device.self]),
                     mqtt_settings, modules, published \o device.published)
        Keyed(uid) ==
            IF uid.raised # NoError
            THEN [raised |-> uid.raised, devices |-> <<>>,
                  published |-> published, items |-> items]
            ELSE Registered(uid,
                     NewDevice(items[i].cls,
                         DictUpdate(items[i].device_settings,
                                    [uid |-> PyStr(uid.uid)]),
                         mqtt_settings, modules))
    IN  Keyed(_get_uid(devices, items[i].cls, items[i].device_settings,
                       mqtt_settings))

\* lines 137-143: every device definition gets its registry key and its
\* device, the first exception ends the loop
RECURSIVE NewDevices(_, _, _, _, _, _)
NewDevices(items, i, devices, mqtt_settings, modules, published) ==
    IF i > Len(items)
    THEN [raised |-> NoError, devices |-> devices, published |-> published,
          items |-> items]
    ELSE
    LET Left(uid, device) ==
            [items EXCEPT ![i].device_settings =
                DeviceSettingsLeft(items[i].cls,
                    DictUpdate(items[i].device_settings,
                               [uid |-> PyStr(uid.uid)]),
                    device.raised)]
        Registered(uid, device) ==
            IF device.raised # NoError
            THEN [raised |-> device.raised, devices |-> <<>>,
                  published |-> published \o device.published,
                  items |-> Left(uid, device)]
            ELSE NewDevices(Left(uid, device), i + 1,
                     Append(devices, [uid |-> uid.uid, device |-> device.self]),
                     mqtt_settings, modules, published \o device.published)
        Keyed(uid) ==
            IF uid.raised # NoError
            THEN [raised |-> uid.raised, devices |-> <<>>,
                  published |-> published, items |-> items]
            ELSE Registered(uid,
                     NewDevice(items[i].cls,
                         DictUpdate(items[i].device_settings,
                                    [uid |-> PyStr(uid.uid)]),
                         mqtt_settings, modules))
    IN  Keyed(_get_uid(devices, items[i].cls, items[i].device_settings,
                       mqtt_settings))

\* the channels of the devices of the registry, in the order of the
\* registry: the topic, the device and its handler
RECURSIVE DeviceTopics(_, _)
DeviceTopics(devices, i) ==
    IF i > Len(devices) THEN <<>>
    ELSE [k \in DOMAIN get_device_topics(devices[i].device) |->
             [topic |-> get_device_topics(devices[i].device)[k].topic,
              uid |-> devices[i].uid,
              on_message |-> get_device_topics(devices[i].device)[k].on_message]]
         \o DeviceTopics(devices, i + 1)

\* lines 145-147: dict.update keeps, for a topic, the entry set last
SubscribedChannels(devices) ==
    LET channels == DeviceTopics(devices, 1)
        Last(topic) == CHOOSE k \in DOMAIN channels :
                          /\ channels[k].topic = topic
                          /\ \A j \in DOMAIN channels :
                                 channels[j].topic = topic => j <= k
    IN  [topic \in {channels[k].topic : k \in DOMAIN channels} |->
            [uid |-> channels[Last(topic)].uid,
             on_message |-> channels[Last(topic)].on_message]]

DeviceBridge__init__(file, modules) ==
    LET Failed(error, published, items) ==
            [raised |-> error, bridge |-> NoBridge, published |-> published,
             remote_devices |-> items]
        Built(mqtt_settings, built) ==
            IF built.raised # NoError
            THEN Failed(built.raised, built.published, built.items)
            ELSE IF ~({"bridge_name", "operating_prefix"}
                          \subseteq DOMAIN mqtt_settings)
            THEN Failed("KeyError", built.published, built.items)
            ELSE [raised |-> NoError,
                  published |-> built.published,
                  remote_devices |-> built.items,
                  bridge |->
                     [exists |-> TRUE,
                      devices |-> built.devices,
                      subscribed_channels_dict |->
                          SubscribedChannels(built.devices),
                      bridge_name |-> Format(mqtt_settings["bridge_name"]),
                      node_channel |->
                          Format(mqtt_settings["operating_prefix"]) \o "/"
                              \o Format(mqtt_settings["bridge_name"]) \o "/#",
                      loop |-> "stopped",
                      subscriptions |-> {},
                      processes |-> <<>>,
                      threads |-> <<>>,
                      thread_published |-> <<>>,
                      value_published |-> {},
                      line_521 |-> -1]]
        Loaded(mqtt_settings, remote_devices) ==
            IF ~({"user", "pw", "ip", "port"} \subseteq DOMAIN mqtt_settings)
            THEN Failed("KeyError", <<>>, DeviceItems(remote_devices, 1))
            ELSE IF ~(DOMAIN remote_devices \subseteq supported_device_classes)
            THEN Failed("AssertionError", <<>>, DeviceItems(remote_devices, 1))
            ELSE Built(mqtt_settings,
                       NewDevices(DeviceItems(remote_devices, 1), 1, <<>>,
                                  mqtt_settings, modules, <<>>))
    IN  IF ~file.is_file THEN Failed("FileNotFoundError", <<>>, <<>>)
        ELSE IF ~({"mqtt_settings", "remote_devices"}
                      \subseteq DOMAIN file.content)
        THEN Failed("KeyError", <<>>, <<>>)
        ELSE Loaded(ReadMqttSettings(file), ReadRemoteDevices(file))

\* {uid: device for uid, device in self._devices.items()}
get_devices(self) ==
    [i \in DOMAIN self.devices |->
        [key |-> self.devices[i].uid, device |-> self.devices[i].device]]

\* msg.payload.decode(): bytes that are no UTF-8 text raise
Decode(payload) ==
    IF payload.utf8 THEN [raised |-> NoError, text |-> payload.text]
    ELSE [raised |-> "UnicodeDecodeError", text |-> ""]

\* a log record whose text holds no payload
NoPayload == [utf8 |-> TRUE, text |-> ""]

\* the index of the registry entry of a key
DeviceIndex(devices, uid) == CHOOSE i \in DOMAIN devices : devices[i].uid = uid

\* what _on_message leaves: the exception that left it, the exception
\* raised inside its try block, the handler it called, the bridge, the
\* publishes and the log
Dispatched(raised_, fault, invoked, self, published, logged) ==
    [raised |-> raised_, fault |-> fault, invoked |-> invoked,
     bridge |-> self, published |-> published, logged |-> logged]

NoHandler == [uid |-> "", on_message |-> "None"]

_on_message_NoExcept(self, msg) ==
    LET unsubscribed == <<[level |-> "WARNING", event |-> "unsubscribed channel",
                           topic |-> msg.topic, payload |-> NoPayload]>>
        actor == <<[level |-> "DEBUG", event |-> "Actor Message",
                    topic |-> msg.topic, payload |-> msg.payload]>>
        Handled(function, i, handled) ==
            Dispatched(handled.raised, handled.raised, function,
                       [self EXCEPT !.devices[i].device = handled.self,
                                    !.processes = handled.processes,
                                    !.threads = handled.threads],
                       handled.published, actor \o handled.logged)
        Found(function, decoded) ==
            IF decoded.raised # NoError
            THEN Dispatched(decoded.raised, decoded.raised, NoHandler, self, <<>>, <<>>)
            ELSE IF function.on_message = "None"
            THEN Dispatched(NoError, NoError, NoHandler, self, <<>>,
                     <<[level |-> "DEBUG", event |-> "Sensor Message",
                        topic |-> msg.topic, payload |-> msg.payload]>>)
            ELSE Handled(function, DeviceIndex(self.devices, function.uid),
                     CallHandler(
                         self.devices[DeviceIndex(self.devices, function.uid)].device,
                         function.on_message, decoded.text,
                         self.processes, self.threads, self.line_521))
    IN  IF msg.topic \notin DOMAIN self.subscribed_channels_dict
        THEN Dispatched(NoError, "KeyError", NoHandler, self, <<>>, unsubscribed)
        ELSE Found(self.subscribed_channels_dict[msg.topic], Decode(msg.payload))

_on_message_NoTry(self, msg) ==
    IF msg.topic \notin DOMAIN self.subscribed_channels_dict
    THEN Dispatched("KeyError", "KeyError", NoHandler, self, <<>>, <<>>)
    ELSE _on_message_NoExcept(self, msg)

\* lines 181-193: the handler of the topic is called with the decoded
\* payload; a KeyError is logged as an unsubscribed channel, every other
\* Exception as an error inside of a device
_on_message(self, msg) ==
    LET unsubscribed == <<[level |-> "WARNING", event |-> "unsubscribed channel",
                           topic |-> msg.topic, payload |-> NoPayload]>>
        actor == <<[level |-> "DEBUG", event |-> "Actor Message",
                    topic |-> msg.topic, payload |-> msg.payload]>>
        Caught(error, invoked, left, published, logged) ==
            Dispatched(NoError, error, invoked, left, published,
                logged \o
                (IF error = "KeyError" THEN unsubscribed
                 ELSE <<[level |-> "ERROR", event |-> error, topic |-> "",
                         payload |-> NoPayload]>>))
        Handled(function, i, handled) ==
            IF handled.raised # NoError
            THEN Caught(handled.raised, function,
                        [self EXCEPT !.devices[i].device = handled.self,
                                     !.processes = handled.processes,
                                     !.threads = handled.threads],
                        handled.published, actor \o handled.logged)
            ELSE Dispatched(NoError, NoError, function,
                            [self EXCEPT !.devices[i].device = handled.self,
                                         !.processes = handled.processes,
                                         !.threads = handled.threads],
                            handled.published, actor \o handled.logged)
        Found(function, decoded) ==
            IF decoded.raised # NoError
            THEN Caught(decoded.raised, NoHandler, self, <<>>, <<>>)
            ELSE IF function.on_message = "None"
            THEN Dispatched(NoError, NoError, NoHandler, self, <<>>,
                     <<[level |-> "DEBUG", event |-> "Sensor Message",
                        topic |-> msg.topic, payload |-> msg.payload]>>)
            ELSE Handled(function, DeviceIndex(self.devices, function.uid),
                     CallHandler(
                         self.devices[DeviceIndex(self.devices, function.uid)].device,
                         function.on_message, decoded.text,
                         self.processes, self.threads, self.line_521))
    IN  IF msg.topic \notin DOMAIN self.subscribed_channels_dict
        THEN Dispatched(NoError, "KeyError", NoHandler, self, <<>>, unsubscribed)
        ELSE Found(self.subscribed_channels_dict[msg.topic], Decode(msg.payload))

\* lines 198-206: the discovery of the first device is published, then the
\* tuple get_discovery returned is indexed with "message"
configure_devices(devices) ==
    IF devices = <<>>
    THEN [raised |-> NoError, published |-> <<>>]
    ELSE
    LET discover_info == get_discovery(devices[1].device)
    IN  [raised |-> "TypeError",
         published |-> <<Publish(discover_info[1], JsonDumps(discover_info[2]),
                                 FALSE, 1)>>]

RECURSIVE delete_devices_FirstOnly(_, _, _)
delete_devices_FirstOnly(devices, i, published) ==
    IF i > Len(devices) \/ i > 1
    THEN [raised |-> NoError, published |-> published]
    ELSE
    LET discover_info == get_discovery(devices[i].device)
    IN  delete_devices_FirstOnly(devices, i + 1,
            Append(published, Publish(discover_info[1], PyStr(""), FALSE, 0)))

\* lines 211-215: an empty payload on the discovery topic of every device
RECURSIVE delete_devices(_, _, _)
delete_devices(devices, i, published) ==
    IF i > Len(devices)
    THEN [raised |-> NoError, published |-> published]
    ELSE
    LET discover_info == get_discovery(devices[i].device)
    IN  delete_devices(devices, i + 1,
            Append(published, Publish(discover_info[1], PyStr(""), FALSE, 0)))

\* the registry entry of the device whose bound method a thread runs
ThreadDevice(self, k) ==
    CHOOSE i \in DOMAIN self.devices :
        self.devices[i].device.uid = self.threads[k].uid

\* SubprocessCall._observation_function, lines 484-485: ON is published
_observation_function_484(self, k) ==
    [self EXCEPT
        !.thread_published =
            @ \o _update(self.devices[ThreadDevice(self, k)].device,
                         "state_topic", PyStr("ON")),
        !.threads[k].at = "line 487"]

\* lines 487-491: poll() has returned the exit code, the loop is left and
\* OFF is published
_observation_function_490(self, k) ==
    [self EXCEPT
        !.thread_published =
            @ \o _update(self.devices[ThreadDevice(self, k)].device,
                         "state_topic", PyStr("OFF")),
        !.threads[k].at = "line 492"]

_observation_function_492_KeepsProcess(self, k) ==
    [self EXCEPT !.threads[k].at = "done"]

\* line 492: self._running_process = None, the thread ends
_observation_function_492(self, k) ==
    [self EXCEPT
        !.devices[ThreadDevice(self, k)].device.running_process = 0,
        !.threads[k].at = "done"]

---------------------------------------------------------------------------
(* The configuration files a DeviceBridge is built from *)

\* the most device definitions a configuration file holds
MaxDevices == 2

\* the settings of the test, and the same without remote logging
BridgeSettings ==
    {EXAMPLE_MQTT_SETTINGS,
     DictUpdate(EXAMPLE_MQTT_SETTINGS, [logging |-> PyBool("False")])}

\* a sensor definition with the object_id given as it is loaded from YAML
Sensor(object_id) ==
    DictUpdate(ValidDevice("ArbitrarySensor", "T1"), [object_id |-> object_id])

\* test/pydevice2mqtt_test.py: an RpiGpio of device_class "switch"
Switch(object_id) ==
    DictUpdate(ValidDevice("RpiGpio", object_id),
               [device_class |-> PyStr("switch")])

\* a SubprocessCall definition with the path of the file to execute
Call(exec_path) ==
    DictUpdate(ValidDevice("SubprocessCall", "T1"),
               [device_class |-> PyStr("switch"), exec_path |-> exec_path])

\* the (class name, definition) pairs of the configuration files: sensors
\* with the object_id "T1", "T2", "42" and 42, a switch, an RGB light, a
\* speech device, a definition of no class of remote_devices.py and a sensor
\* without object_id
ConfiguredPairs ==
    {[cls |-> "ArbitrarySensor", info |-> Sensor(o)] :
        o \in {PyStr("T1"), PyStr("T2"), PyStr("42"), PyInt("42")}}
    \cup {[cls |-> "RpiGpio", info |-> Switch("T1")],
          [cls |-> "RpiRgb", info |-> ValidDevice("RpiRgb", "T1")],
          [cls |-> "ESpeakTTS", info |-> ValidDevice("ESpeakTTS", "T1")],
          [cls |-> "Toaster", info |-> ValidDevice("ArbitrarySensor", "T1")],
          [cls |-> "ArbitrarySensor",
           info |-> DictWithout(Sensor(PyStr("T1")), "object_id")]}

\* the files: written by yaml.safe_dump as update_config writes them
ConfigFiles ==
    {WriteConfig([mqtt_settings |-> s, remote_devices |-> DevicesDict(pairs).lists]) :
        pairs \in UNION {[1..n -> ConfiguredPairs] : n \in 0..MaxDevices},
        s \in BridgeSettings}

\* create_config_file of the test: one device of every class of
\* remote_devices.py
ExamplePairs ==
    <<[cls |-> "ArbitrarySensor", info |-> Sensor(PyStr("T1"))],
      [cls |-> "ESpeakTTS", info |-> ValidDevice("ESpeakTTS", "T1")],
      [cls |-> "RpiGpio", info |-> Switch("T1")],
      [cls |-> "RpiRgb", info |-> ValidDevice("RpiRgb", "T1")],
      [cls |-> "SubprocessCall", info |-> Call(PyStr("python"))]>>

ExampleFiles ==
    {WriteConfig([mqtt_settings |-> s,
                  remote_devices |-> DevicesDict(ExamplePairs).lists]) :
        s \in BridgeSettings}

\* a sensor definition with optional attributes: safe_dump writes the keys
\* sorted, so the attributes are applied in this order
SensorWithOptAttr ==
    DictUpdate(Sensor(PyStr("T2")),
        [opt_attr |->
            [type |-> "dict",
             items |-> <<[key |-> "device_class", value |-> PyStr("humidity")],
                         [key |-> "discovery_topic", value |-> PyStr("elsewhere")],
                         [key |-> "state_topic", value |-> PyStr("elsewhere")],
                         [key |-> "unique_id", value |-> PyStr("mine")],
                         [key |-> "zone", value |-> PyStr("attic")]>>]])

\* the files the constructor is run on: those above, the file of the test,
\* and files with a call of a file that can be executed, a call of one that
\* cannot, a sensor without name and a sensor with optional attributes
ConstructFiles ==
    ConfigFiles \cup ExampleFiles
    \cup {WriteConfig([mqtt_settings |-> s,
                       remote_devices |-> DevicesDict(pairs).lists]) :
             pairs \in UNION {[1..n ->
                         {ExamplePairs[1], ExamplePairs[5],
                          [cls |-> "SubprocessCall",
                           info |-> Call(PyStr("Test_String"))],
                          [cls |-> "ArbitrarySensor",
                           info |-> DictWithout(Sensor(PyStr("T2")), "name")],
                          [cls |-> "ArbitrarySensor",
                           info |-> SensorWithOptAttr]}] :
                         n \in 1..MaxDevices},
             s \in BridgeSettings}

\* the files of a bridge of sensors and subprocesses: a sensor, a call of a
\* file that can be executed or of one that cannot, and a call after a
\* sensor
ThreadFiles ==
    {WriteConfig([mqtt_settings |-> s, remote_devices |-> DevicesDict(pairs).lists]) :
        pairs \in {<<[cls |-> "SubprocessCall", info |-> Call(e)]>> :
                       e \in {PyStr("python"), PyStr("Test_String")}}
                  \cup {<<ExamplePairs[1]>>,
                        <<ExamplePairs[1], ExamplePairs[5]>>},
        s \in BridgeSettings}

\* the most processes the devices of a bridge start
MaxSpawns == 2

\* the values given to set_value
Values == {PyInt("1"), PyBool("True"), PyFloat("23.5"), PyNone}

\* the payloads of the inbound messages: text, and bytes that are no UTF-8
Payloads ==
    {[utf8 |-> TRUE, text |-> t] :
        t \in {"ON", "OFF", JSON_OFF, JSON_ON, JSON_ON_RED, JSON_ON_NO_BLUE,
               JSON_NO_STATE, JSON_LIST}}
    \cup {[utf8 |-> FALSE, text |-> ""]}

\* the topics the devices of the bridge log to
LogTopics(b) ==
    {b.devices[i].device.logging_channel.topic :
        i \in {d \in DOMAIN b.devices :
                  ~b.devices[d].device.logging_channel.is_none}}

\* the topics of the inbound messages: the subscription of _on_connect
\* matches every topic under "{operating_prefix}/{bridge_name}/", those
\* the bridge publishes to itself included
InboundTopics(b) ==
    DOMAIN b.subscribed_channels_dict
    \cup LogTopics(b)
    \cup {Format(ReadMqttSettings(config_file)["operating_prefix"]) \o "/"
              \o b.bridge_name \o "/nobody/set"}

NoMessage == [topic |-> "", payload |-> [utf8 |-> TRUE, text |-> ""]]

\* history of an operation: its name, the inbound message, the exception
\* raised inside the try block of _on_message, the handler it called, the
\* publishes and the log records of the operation, the bridge when the
\* operation began, the device definitions as the constructor leaves them,
\* and the sensor and the arguments of set_value
NoOp ==
    [name |-> "None", msg |-> NoMessage, fault |-> NoError,
     invoked |-> NoHandler, published |-> <<>>, logged |-> <<>>,
     bridge_before |-> NoBridge, remote_devices |-> <<>>,
     device |-> 0, value |-> PyNone, force_update |-> TRUE]

---------------------------------------------------------------------------
(* The state machine *)

NoCall ==
    [devices |-> DevicesDict(<<>>), mqtt_settings |-> None,
     force_update |-> FALSE]

Init ==
    /\ config_file = NoFile
    /\ before = NoFile
    /\ call = NoCall
    /\ raised = NoError
    /\ pc = "idle"
    /\ imported = [gpiozero |-> FALSE, espeak |-> FALSE]
    /\ bridge = NoBridge
    /\ op = NoOp
    /\ faulted = FALSE

\* one call of DeviceBridge.update_config on the configuration file
UpdateConfig ==
    /\ pc = "idle"
    /\ \E pairs \in Batches, mqtt_settings \in MqttSettingsArgs,
          force_update \in BOOLEAN :
          LET devices == DevicesDict(pairs)
              r == update_config(config_file, devices, mqtt_settings,
                                 force_update)
          IN  /\ before' = config_file
              /\ call' = [devices |-> devices, mqtt_settings |-> mqtt_settings,
                          force_update |-> force_update]
              /\ raised' = r.raised
              /\ config_file' = r.file
              /\ pc' = "returned"
    /\ UNCHANGED <<imported, bridge, op, faulted>>

\* the caller goes on after the call: only the file is left of it
Continue ==
    /\ pc = "returned"
    /\ pc' = "idle"
    /\ before' = NoFile
    /\ call' = NoCall
    /\ raised' = NoError
    /\ op' = NoOp
    /\ UNCHANGED <<config_file, imported, bridge, faulted>>

Next == UpdateConfig \/ Continue

Spec == Init /\ [][Next]_vars

---------------------------------------------------------------------------
(* The state machine of a DeviceBridge on a configuration file *)

InitBridge ==
    /\ config_file \in ConfigFiles
    /\ imported \in [gpiozero : BOOLEAN, espeak : BOOLEAN]
    /\ before = NoFile
    /\ call = NoCall
    /\ raised = NoError
    /\ pc = "idle"
    /\ bridge = NoBridge
    /\ op = NoOp
    /\ faulted = FALSE

\* DeviceBridge(config_file)
NewDeviceBridge ==
    /\ pc = "idle"
    /\ ~bridge.exists
    /\ \E r \in {DeviceBridge__init__(config_file, imported)} :
           /\ bridge' = r.bridge
           /\ raised' = r.raised
           /\ op' = [NoOp EXCEPT !.name = "DeviceBridge",
                                 !.published = r.published,
                                 !.remote_devices = r.remote_devices]
    /\ before' = config_file
    /\ pc' = "returned"
    /\ UNCHANGED <<config_file, call, imported, faulted>>

\* start(): loop_start runs the network loop on a thread of its own
Start ==
    /\ pc = "idle"
    /\ bridge.exists
    /\ bridge.loop # "forever"
    /\ bridge' = [bridge EXCEPT !.loop = "thread"]
    /\ op' = [NoOp EXCEPT !.name = "start", !.bridge_before = bridge,
                          !.logged = <<[level |-> "DEBUG",
                                        event |-> "MQTT Thread Started",
                                        topic |-> ""]>>]
    /\ raised' = NoError
    /\ before' = config_file
    /\ pc' = "returned"
    /\ UNCHANGED <<config_file, call, imported, faulted>>

\* loop(): loop_forever runs the network loop on the calling thread
Loop ==
    /\ pc = "idle"
    /\ bridge.exists
    /\ bridge.loop = "stopped"
    /\ bridge' = [bridge EXCEPT !.loop = "forever"]
    /\ op' = [NoOp EXCEPT !.name = "loop", !.bridge_before = bridge]
    /\ raised' = NoError
    /\ before' = config_file
    /\ pc' = "returned"
    /\ UNCHANGED <<config_file, call, imported, faulted>>

\* stop(): loop_stop ends the thread of loop_start
Stop ==
    /\ pc = "idle"
    /\ bridge.exists
    /\ bridge' = [bridge EXCEPT !.loop = IF @ = "thread" THEN "stopped" ELSE @]
    /\ op' = [NoOp EXCEPT !.name = "stop", !.bridge_before = bridge,
                          !.logged = <<[level |-> "DEBUG",
                                        event |-> "MQTT Thread Stopped",
                                        topic |-> ""]>>]
    /\ raised' = NoError
    /\ before' = config_file
    /\ pc' = "returned"
    /\ UNCHANGED <<config_file, call, imported, faulted>>

\* the network loop calls _on_connect when the broker accepts the client
OnConnect ==
    /\ pc = "idle"
    /\ bridge.exists
    /\ bridge.loop # "stopped"
    /\ bridge' = [bridge EXCEPT !.subscriptions = @ \cup {bridge.node_channel}]
    /\ op' = [NoOp EXCEPT !.name = "_on_connect", !.bridge_before = bridge,
                          !.logged = <<[level |-> "DEBUG",
                                        event |-> "subscribe",
                                        topic |-> bridge.node_channel]>>]
    /\ raised' = NoError
    /\ before' = config_file
    /\ pc' = "returned"
    /\ UNCHANGED <<config_file, call, imported, faulted>>

\* the handler of the message is SubprocessCall._handle_command, the
\* command is OFF and line 521 finds a process: the watcher thread may run
\* before line 525 reads self._running_process again
Suspends(self, msg) ==
    /\ msg.topic \in DOMAIN self.subscribed_channels_dict
    /\ msg.payload.utf8
    /\ msg.payload.text = "OFF"
    /\ self.subscribed_channels_dict[msg.topic].on_message = "_handle_command"
    /\ LET device == self.devices[DeviceIndex(self.devices,
                          self.subscribed_channels_dict[msg.topic].uid)].device
       IN  device.cls = "SubprocessCall" /\ device.running_process # 0

\* the network loop calls _on_message with a message of the subscription
OnMessage ==
    /\ pc = "idle"
    /\ bridge.exists
    /\ bridge.loop # "stopped"
    /\ bridge.node_channel \in bridge.subscriptions
    /\ \E topic \in InboundTopics(bridge), payload \in Payloads :
          /\ ~Suspends(bridge, [topic |-> topic, payload |-> payload])
          /\ \E r \in {_on_message(bridge, [topic |-> topic, payload |-> payload])} :
              /\ Len(r.bridge.processes) <= MaxSpawns
              /\ bridge' = r.bridge
              /\ raised' = r.raised
              /\ op' = [NoOp EXCEPT !.name = "_on_message",
                            !.msg = [topic |-> topic, payload |-> payload],
                            !.fault = r.fault, !.invoked = r.invoked,
                            !.published = r.published, !.logged = r.logged,
                            !.bridge_before = bridge]
              /\ faulted' = (faulted \/ (r.fault # NoError /\ r.invoked # NoHandler))
    /\ before' = config_file
    /\ pc' = "returned"
    /\ UNCHANGED <<config_file, call, imported>>

\* _on_message with an OFF for a SubprocessCall whose process line 521
\* finds: the call as far as line 521
OnMessageLine521 ==
    /\ pc = "idle"
    /\ bridge.exists
    /\ bridge.loop # "stopped"
    /\ bridge.node_channel \in bridge.subscriptions
    /\ \E topic \in InboundTopics(bridge), payload \in Payloads :
          /\ Suspends(bridge, [topic |-> topic, payload |-> payload])
          /\ bridge' = [bridge EXCEPT !.line_521 =
                 bridge.devices[DeviceIndex(bridge.devices,
                     bridge.subscribed_channels_dict[topic].uid)].device.running_process]
          /\ op' = [NoOp EXCEPT !.name = "_on_message",
                        !.msg = [topic |-> topic, payload |-> payload],
                        !.bridge_before = bridge]
    /\ raised' = NoError
    /\ before' = config_file
    /\ pc' = "line 525"
    /\ UNCHANGED <<config_file, call, imported, faulted>>

\* the same call from line 525 to its end
OnMessageLine525 ==
    /\ pc = "line 525"
    /\ \E r \in {_on_message(bridge, op.msg)} :
           /\ bridge' = [r.bridge EXCEPT !.line_521 = -1]
           /\ raised' = r.raised
           /\ op' = [op EXCEPT !.fault = r.fault, !.invoked = r.invoked,
                               !.published = r.published, !.logged = r.logged]
           /\ faulted' = (faulted \/ (r.fault # NoError /\ r.invoked # NoHandler))
    /\ pc' = "returned"
    /\ UNCHANGED <<config_file, before, call, imported>>

\* sensor.set_value(value, force_update) on a sensor of get_devices()
SetValue ==
    /\ pc = "idle"
    /\ bridge.exists
    /\ \E i \in DOMAIN bridge.devices, value \in Values,
          force_update \in BOOLEAN :
          /\ bridge.devices[i].device.cls = "ArbitrarySensor"
          /\ \E r \in {set_value(bridge.devices[i].device, value, force_update)} :
                 /\ bridge' = [bridge EXCEPT
                                   !.devices[i].device = r.self,
                                   !.value_published =
                                       IF r.published = <<>> THEN @
                                       ELSE @ \cup {i}]
                 /\ raised' = r.raised
                 /\ op' = [NoOp EXCEPT !.name = "set_value",
                               !.published = r.published,
                               !.bridge_before = bridge,
                               !.device = i, !.value = value,
                               !.force_update = force_update]
    /\ before' = config_file
    /\ pc' = "returned"
    /\ UNCHANGED <<config_file, call, imported, faulted>>

\* a step of another thread or of a process: a caller that has returned
\* has gone on, a handler that waits before line 525 still waits
Meanwhile ==
    /\ pc' = IF pc = "returned" THEN "idle" ELSE pc
    /\ op' = IF pc = "returned" THEN NoOp ELSE op
    /\ raised' = IF pc = "returned" THEN NoError ELSE raised
    /\ before' = IF pc = "returned" THEN NoFile ELSE before
    /\ UNCHANGED <<config_file, call, imported, faulted>>

\* a process a device started comes to its end
ProcessExits ==
    /\ \E k \in DOMAIN bridge.processes :
           /\ bridge.processes[k].status = "running"
           /\ bridge' = [bridge EXCEPT !.processes[k].status = "exited"]
    /\ Meanwhile

\* the steps of the observation thread k
Observe(k) ==
    /\ k \in DOMAIN bridge.threads
    /\ \/ /\ bridge.threads[k].at = "line 484"
          /\ bridge' = _observation_function_484(bridge, k)
       \/ /\ bridge.threads[k].at = "line 487"
          /\ bridge.processes[bridge.threads[k].pOpen].status # "running"
          /\ bridge' = _observation_function_490(bridge, k)
       \/ /\ bridge.threads[k].at = "line 492"
          /\ bridge' = _observation_function_492(bridge, k)
    /\ Meanwhile

ObservationThread == \E k \in 1..MaxSpawns : Observe(k)

ConfigureDevices ==
    /\ pc = "idle"
    /\ bridge.exists
    /\ \E r \in {configure_devices(bridge.devices)} :
           /\ raised' = r.raised
           /\ op' = [NoOp EXCEPT !.name = "configure_devices",
                                 !.published = r.published,
                                 !.bridge_before = bridge]
    /\ before' = config_file
    /\ pc' = "returned"
    /\ UNCHANGED <<config_file, call, imported, bridge, faulted>>

DeleteDevices ==
    /\ pc = "idle"
    /\ bridge.exists
    /\ \E r \in {delete_devices(bridge.devices, 1, <<>>)} :
           /\ raised' = r.raised
           /\ op' = [NoOp EXCEPT !.name = "delete_devices",
                                 !.published = r.published,
                                 !.bridge_before = bridge]
    /\ before' = config_file
    /\ pc' = "returned"
    /\ UNCHANGED <<config_file, call, imported, bridge, faulted>>

NextBridge ==
    \/ NewDeviceBridge
    \/ Start
    \/ Loop
    \/ Stop
    \/ OnConnect
    \/ OnMessage
    \/ ConfigureDevices
    \/ DeleteDevices
    \/ Continue

SpecBridge == InitBridge /\ [][NextBridge]_vars

---------------------------------------------------------------------------
(* A bridge with a sensor and a subprocess: the caller, the network loop,
   the observation threads and the processes *)

InitThreads ==
    /\ config_file \in ThreadFiles
    /\ imported = [gpiozero |-> FALSE, espeak |-> FALSE]
    /\ before = NoFile
    /\ call = NoCall
    /\ raised = NoError
    /\ pc = "idle"
    /\ bridge = NoBridge
    /\ op = NoOp
    /\ faulted = FALSE

NextThreads ==
    \/ NewDeviceBridge
    \/ Start
    \/ Loop
    \/ Stop
    \/ OnConnect
    \/ OnMessage
    \/ OnMessageLine521
    \/ OnMessageLine525
    \/ SetValue
    \/ ConfigureDevices
    \/ DeleteDevices
    \/ ProcessExits
    \/ ObservationThread
    \/ Continue

SpecThreads == InitThreads /\ [][NextThreads]_vars

\* a thread that was started and can take a step takes it in the end
SpecThreadsFair ==
    /\ InitThreads
    /\ [][NextThreads]_vars
    /\ \A k \in 1..MaxSpawns : WF_vars(Observe(k))

---------------------------------------------------------------------------
(* update_config creates the configuration file, DeviceBridge loads it *)

\* the settings a new file is created with: those of the test, the same
\* without the credentials, without logging, without both, without the
\* port, and none
NewFileSettings ==
    {None, Given(EXAMPLE_MQTT_SETTINGS), Given(IncompleteMqttSettings),
     Given(DictWithout(DictWithout(EXAMPLE_MQTT_SETTINGS, "user"), "pw")),
     Given(DictWithout(EXAMPLE_MQTT_SETTINGS, "logging")),
     Given(DictWithout(DictWithout(DictWithout(EXAMPLE_MQTT_SETTINGS, "user"),
                                   "pw"), "logging"))}

InitLoad ==
    /\ config_file = NoFile
    /\ imported = [gpiozero |-> TRUE, espeak |-> TRUE]
    /\ before = NoFile
    /\ call = NoCall
    /\ raised = NoError
    /\ pc = "idle"
    /\ bridge = NoBridge
    /\ op = NoOp
    /\ faulted = FALSE

\* update_config for a file that does not exist
CreateConfig ==
    /\ pc = "idle"
    /\ ~config_file.is_file
    /\ ~bridge.exists
    /\ \E pairs \in Batches, mqtt_settings \in NewFileSettings,
          force_update \in BOOLEAN :
          \E r \in {update_config(config_file, DevicesDict(pairs),
                                   mqtt_settings, force_update)} :
              /\ before' = config_file
              /\ call' = [devices |-> DevicesDict(pairs),
                          mqtt_settings |-> mqtt_settings,
                          force_update |-> force_update]
              /\ raised' = r.raised
              /\ config_file' = r.file
              /\ pc' = "returned"
    /\ UNCHANGED <<imported, bridge, op, faulted>>

NextLoad == CreateConfig \/ NewDeviceBridge \/ Continue

SpecLoad == InitLoad /\ [][NextLoad]_vars

---------------------------------------------------------------------------
(* A bridge with one RpiGpio switch, inverted or not *)

SwitchFiles ==
    {WriteConfig([mqtt_settings |-> s,
                  remote_devices |->
                      DevicesDict(<<[cls |-> "RpiGpio",
                                     info |-> DictUpdate(Switch("T1"),
                                                  [inverted |-> inverted])]>>).lists]) :
        inverted \in {PyBool("True"), PyBool("False")}, s \in BridgeSettings}

InitSwitch ==
    /\ config_file \in SwitchFiles
    /\ imported = [gpiozero |-> TRUE, espeak |-> FALSE]
    /\ before = NoFile
    /\ call = NoCall
    /\ raised = NoError
    /\ pc = "idle"
    /\ bridge = NoBridge
    /\ op = NoOp
    /\ faulted = FALSE

SpecSwitch == InitSwitch /\ [][NextBridge]_vars

---------------------------------------------------------------------------
(* The constructor of DeviceBridge, on the files above and on the file of
   the test *)

InitConstruct ==
    /\ config_file \in ConstructFiles
    /\ imported \in [gpiozero : BOOLEAN, espeak : BOOLEAN]
    /\ before = NoFile
    /\ call = NoCall
    /\ raised = NoError
    /\ pc = "idle"
    /\ bridge = NoBridge
    /\ op = NoOp
    /\ faulted = FALSE

NextConstruct == NewDeviceBridge \/ Continue

SpecConstruct == InitConstruct /\ [][NextConstruct]_vars


---------------------------------------------------------------------------
(* Vocabulary of the properties *)

Returned == pc = "returned"

\* the (class, definition) entries a configuration file holds
DeviceEntries(file) ==
    UNION {{[cls |-> c, info |-> ReadRemoteDevices(file)[c][i]] :
               i \in DOMAIN ReadRemoteDevices(file)[c]} :
           c \in DOMAIN ReadRemoteDevices(file)}

\* the (class, definition) entries a call proposes
ProposedEntries(devices) ==
    UNION {{[cls |-> c, info |-> devices.lists[c][i]] :
               i \in DOMAIN devices.lists[c]} :
           c \in DOMAIN devices.lists}

\* two entries name the same (device_class, object_id)
SameKey(e1, e2) ==
    /\ e1.cls = e2.cls
    /\ "object_id" \in DOMAIN e1.info
    /\ "object_id" \in DOMAIN e2.info
    /\ e1.info["object_id"] = e2.info["object_id"]

\* some proposed device names a (device_class, object_id) the file holds
Collides(file, devices) ==
    \E p \in ProposedEntries(devices), e \in DeviceEntries(file) :
        SameKey(p, e)

\* the entry is of a supported class and holds every key of the class's
\* schema with a value of the schema's type
SatisfiesSchema(e) ==
    /\ e.cls \in supported_device_classes
    /\ \A key \in DOMAIN get_config_req(e.cls) :
            /\ key \in DOMAIN e.info
            /\ e.info[key].type = get_config_req(e.cls)[key]

\* the number of devices a file holds for a class
DeviceCount(file, cls) ==
    IF cls \in DOMAIN ReadRemoteDevices(file)
    THEN Len(ReadRemoteDevices(file)[cls]) ELSE 0

---------------------------------------------------------------------------
(* C1..C10: the configuration merge *)

\* C1: a successful update_config call without force_update on an existing
\* configuration keeps every entry persisted before the call, with the same
\* definition, and a class that held n devices and is given k new ones
\* holds n + k afterwards.
C1_NoDeviceRemoved ==
    (Returned /\ raised = NoError /\ before.is_file /\ ~call.force_update)
    => /\ DeviceEntries(before) \subseteq DeviceEntries(config_file)
       /\ \A cls \in DOMAIN call.devices.lists :
              DeviceCount(config_file, cls)
                  = DeviceCount(before, cls) + Len(call.devices.lists[cls])

\* C2: a call with force_update and valid proposed devices, one of which
\* names an existing (device_class, object_id), succeeds, and every
\* persisted entry whose (device_class, object_id) is not proposed is kept.
C2_ForceReplacesOnlyThatEntry ==
    (/\ Returned /\ before.is_file /\ call.force_update
     /\ Collides(before, call.devices)
     /\ \A p \in ProposedEntries(call.devices) : SatisfiesSchema(p))
    => /\ raised = NoError
       /\ \A e \in DeviceEntries(before) :
              (\A p \in ProposedEntries(call.devices) : ~SameKey(p, e))
              => e \in DeviceEntries(config_file)

\* C3: a call without force_update that proposes a device whose
\* (device_class, object_id) is persisted ends in an error and merges none
\* of the proposed devices: the file is what it was.
C3_DuplicateFailsWholeCall ==
    (Returned /\ before.is_file /\ ~call.force_update
              /\ Collides(before, call.devices))
    => raised # NoError /\ config_file = before

\* a call that kept its bridge settings to itself proposed a new device
\* next to a persisted one and was refused for the duplicate
C3_Witness ==
    /\ Returned /\ before.is_file /\ ~call.force_update
    /\ Collides(before, call.devices)
    /\ \E p \in ProposedEntries(call.devices) :
           \A e \in DeviceEntries(before) : ~SameKey(p, e)
    /\ raised = "AssertionError"
    /\ config_file = before

\* C4: a call that ends in an error leaves the configuration file as it
\* was; a file that did not exist is not created.
C4_ErrorLeavesFile ==
    (Returned /\ raised # NoError) => config_file = before

\* a call on an existing file whose first class is valid and new to the
\* file and whose second class is unsupported ended in an error
C4_Witness ==
    /\ Returned /\ before.is_file
    /\ Len(call.devices.order) = 2
    /\ call.devices.order[1] \in supported_device_classes
    /\ call.devices.order[1] \notin DOMAIN ReadRemoteDevices(before)
    /\ raised = "AttributeError"
    /\ config_file = before

\* C5: on a missing configuration file a call without mqtt_settings, or
\* with mqtt_settings that lack a needed key, ends in an error and writes
\* no file.
C5_NewFileNeedsSettings ==
    (/\ Returned /\ ~before.is_file
     /\ \/ call.mqtt_settings.is_none
        \/ \E key \in {"ip", "port", "bridge_name", "discovery_prefix",
                        "operating_prefix"} :
               key \notin DOMAIN call.mqtt_settings.dict)
    => raised # NoError /\ ~config_file.is_file

\* a call with settings that lack the port, and with devices that are all
\* valid, was refused on a missing file
C5_Witness ==
    /\ Returned /\ ~before.is_file
    /\ ~call.mqtt_settings.is_none
    /\ "port" \notin DOMAIN call.mqtt_settings.dict
    /\ ProposedEntries(call.devices) # {}
    /\ \A p \in ProposedEntries(call.devices) : SatisfiesSchema(p)
    /\ raised = "AssertionError"
    /\ ~config_file.is_file

\* C6: on an existing configuration a call with mqtt_settings and without
\* force_update ends in an error, and no call without force_update changes
\* the persisted bridge settings; so over calls without force_update they
\* stay those written when the configuration was created.
C6_SettingsImmutableWithoutForce ==
    (Returned /\ before.is_file /\ ~call.force_update)
    => /\ ~call.mqtt_settings.is_none => raised # NoError
       /\ config_file.is_file
       /\ ReadMqttSettings(config_file) = ReadMqttSettings(before)

\* a call without force_update that supplied settings other than the
\* persisted ones, and only valid new devices, was refused
C6_Witness ==
    /\ Returned /\ before.is_file /\ ~call.force_update
    /\ ~call.mqtt_settings.is_none
    /\ call.mqtt_settings.dict # ReadMqttSettings(before)
    /\ needed_mqtt_keys \subseteq DOMAIN call.mqtt_settings.dict
    /\ ProposedEntries(call.devices) # {}
    /\ \A p \in ProposedEntries(call.devices) : SatisfiesSchema(p)
    /\ ~Collides(before, call.devices)
    /\ raised = "ValueError"
    /\ ReadMqttSettings(config_file) = ReadMqttSettings(before)

\* C7: a successful call with force_update and mqtt_settings on an existing
\* configuration leaves the supplied values in the settings section a
\* bridge built from the file reads.
C7_ForceReplacesSettings ==
    (/\ Returned /\ before.is_file /\ call.force_update
     /\ ~call.mqtt_settings.is_none /\ raised = NoError)
    => \A key \in DOMAIN call.mqtt_settings.dict :
           /\ key \in DOMAIN ReadMqttSettings(config_file)
           /\ ReadMqttSettings(config_file)[key] = call.mqtt_settings.dict[key]

\* the call got as far as the loop over the proposed devices
ReachedDevices ==
    IF before.is_file
    THEN call.mqtt_settings.is_none \/ call.force_update
    ELSE /\ ~call.mqtt_settings.is_none
         /\ needed_mqtt_keys \subseteq DOMAIN call.mqtt_settings.dict

\* C8: of the calls that get to the proposed devices, one whose first class
\* is unsupported ends in the unsupported-device-class error
\* (AttributeError), one whose classes are supported and whose first device
\* lacks a field of its schema or holds a value of another type ends in the
\* validation error (the AttributeError of line 100), and one whose devices
\* all satisfy their schema and collide with no existing entry is accepted
\* and its devices are persisted.
C8_ValidationErrors ==
    (Returned /\ ReachedDevices /\ call.devices.order # <<>>)
    => LET first == call.devices.order[1]
           proposed == ProposedEntries(call.devices)
       IN  /\ first \notin supported_device_classes
                => raised = "AttributeError"
           /\ (/\ \A p \in proposed : p.cls \in supported_device_classes
               /\ ~SatisfiesSchema([cls |-> first,
                                    info |-> call.devices.lists[first][1]]))
                => raised = "AttributeError"
           /\ (/\ \A p \in proposed :
                      SatisfiesSchema(p) /\ "object_id" \in DOMAIN p.info
               /\ ~Collides(before, call.devices))
                => /\ raised = NoError
                   /\ proposed \subseteq DeviceEntries(config_file)

\* C9: in the persisted configuration no two devices of one class have the
\* same object_id.
C9_ObjectIdUnique ==
    \A cls \in DOMAIN ReadRemoteDevices(config_file) :
        \A i, j \in DOMAIN ReadRemoteDevices(config_file)[cls] :
            LET di == ReadRemoteDevices(config_file)[cls][i]
                dj == ReadRemoteDevices(config_file)[cls][j]
            IN  (/\ i # j
                 /\ "object_id" \in DOMAIN di
                 /\ "object_id" \in DOMAIN dj)
                => di["object_id"] # dj["object_id"]

\* C10: when a call gets to a proposed device without object_id, the schema
\* of every supported class is not empty and requires name and object_id
\* as strings, and the call ends in an error.
C10_SchemaHoldsObjectId ==
    (/\ Returned /\ ReachedDevices
     /\ \A p \in ProposedEntries(call.devices) :
            p.cls \in supported_device_classes
     /\ \E p \in ProposedEntries(call.devices) :
            "object_id" \notin DOMAIN p.info)
    => /\ \A cls \in supported_device_classes :
              /\ DOMAIN get_config_req(cls) # {}
              /\ "name" \in DOMAIN get_config_req(cls)
              /\ get_config_req(cls)["name"] = "str"
              /\ "object_id" \in DOMAIN get_config_req(cls)
              /\ get_config_req(cls)["object_id"] = "str"
       /\ raised # NoError

---------------------------------------------------------------------------
(* Vocabulary of the properties of the bridge *)

\* the operation of the name has just returned or raised
Ended(name) == pc = "returned" /\ op.name = name

\* the device definitions of the configuration file, in the order the
\* constructor reads them
Definitions == DeviceItems(ReadRemoteDevices(config_file), 1)

\* the (device class, object_id) pair of a definition
ClassAndObjectId(item) ==
    [cls |-> item.cls, object_id |-> item.device_settings["object_id"]]

\* the key DeviceBridge._get_uid gives a definition in the registry
RegistryIdentity(item) ==
    Format(ReadMqttSettings(config_file)["bridge_name"]) \o "_" \o item.cls
        \o "_" \o Format(item.device_settings["object_id"])

\* the topics a device declares
DeclaredTopics(device) ==
    {device.operation_topics[k].topic : k \in DOMAIN device.operation_topics}

\* the definition is of a class of remote_devices.py and its device cannot
\* be constructed
ConstructionFails(item) ==
    /\ item.cls \in supported_device_classes
    /\ NewDevice(item.cls, item.device_settings,
                 ReadMqttSettings(config_file), imported).raised # NoError

---------------------------------------------------------------------------
(* C11..C20: the bridge *)

\* C11: every device of a bridge has the id "{class name}_{object_id}" of
\* its definition and the uid that is the digest of "{operating_prefix}_
\* {bridge_name}_{class name}_{object_id}", whatever else the settings and
\* the definition hold, and two devices of the bridge whose (device class,
\* object_id) pairs differ have different ids.
C11_IdAndUid ==
    bridge.exists
    => /\ Len(bridge.devices) = Len(Definitions)
       /\ \A i \in DOMAIN bridge.devices :
              /\ get_id(bridge.devices[i].device)
                     = Definitions[i].cls \o "_"
                           \o Format(Definitions[i].device_settings["object_id"])
              /\ get_uid(bridge.devices[i].device)
                     = Sha1Hex16(
                           Format(ReadMqttSettings(config_file)["operating_prefix"])
                               \o "_"
                               \o Format(ReadMqttSettings(config_file)["bridge_name"])
                               \o "_" \o Definitions[i].cls \o "_"
                               \o Format(Definitions[i].device_settings["object_id"]))
       /\ \A i, j \in DOMAIN bridge.devices :
              ClassAndObjectId(Definitions[i]) # ClassAndObjectId(Definitions[j])
              => get_id(bridge.devices[i].device)
                     # get_id(bridge.devices[j].device)

\* a bridge of two devices of one class with different object_ids
C11_Witness ==
    /\ bridge.exists
    /\ Len(bridge.devices) = 2
    /\ Definitions[1].cls = Definitions[2].cls
    /\ ClassAndObjectId(Definitions[1]) # ClassAndObjectId(Definitions[2])

\* C12: the dispatch table of a bridge holds one key per channel its devices
\* declare: the number of keys is the sum of the devices' channel counts,
\* and no topic is declared by two different devices.
C12_OneEntryPerChannel ==
    bridge.exists
    => /\ Cardinality(DOMAIN bridge.subscribed_channels_dict)
              = Len(DeviceTopics(bridge.devices, 1))
       /\ \A i, j \in DOMAIN bridge.devices :
              i # j => DeclaredTopics(bridge.devices[i].device)
                           \cap DeclaredTopics(bridge.devices[j].device) = {}

\* a bridge of two devices that declare five channels
C12_Witness ==
    /\ bridge.exists
    /\ Len(bridge.devices) = 2
    /\ Len(DeviceTopics(bridge.devices, 1)) = 5

\* C13: a constructor run on a configuration two of whose definitions have
\* the same registry identity ends in an error and leaves no bridge; a
\* bridge that exists holds one registry entry per definition under its own
\* key, and every topic of its dispatch table is declared by one device.
C13_NoSilentOverwrite ==
    /\ (/\ Ended("DeviceBridge")
        /\ \E i, j \in DOMAIN Definitions :
              /\ i # j
              /\ "object_id" \in DOMAIN Definitions[i].device_settings
              /\ "object_id" \in DOMAIN Definitions[j].device_settings
              /\ RegistryIdentity(Definitions[i]) = RegistryIdentity(Definitions[j]))
       => (raised # NoError /\ ~bridge.exists)
    /\ bridge.exists
       => /\ Cardinality(RegistryKeys(bridge.devices)) = Len(Definitions)
          /\ \A topic \in DOMAIN bridge.subscribed_channels_dict :
                 Cardinality({i \in DOMAIN bridge.devices :
                                 topic \in DeclaredTopics(bridge.devices[i].device)})
                     = 1

\* the constructor has refused the second of two definitions of one
\* registry identity whose object_ids are the str "42" and the int 42
C13_Witness ==
    /\ Ended("DeviceBridge")
    /\ raised = "ValueError"
    /\ Len(Definitions) = 2
    /\ Definitions[1].device_settings["object_id"]
           # Definitions[2].device_settings["object_id"]

\* C14: the mapping get_devices returns has one entry per device definition
\* and the key of every entry is the get_id of its device.
C14_KeyedById ==
    bridge.exists
    => /\ Len(get_devices(bridge)) = Len(Definitions)
       /\ \A i \in DOMAIN get_devices(bridge) :
              get_devices(bridge)[i].key = get_id(get_devices(bridge)[i].device)

\* C15: a constructor run on a configuration that names a class
\* remote_devices.py does not hold, or one of whose devices cannot be
\* constructed, ends in an error and leaves no bridge; a bridge that exists
\* holds a device for every definition.
C15_ConstructorFailsAsAWhole ==
    /\ (/\ Ended("DeviceBridge")
        /\ \/ ~(DOMAIN ReadRemoteDevices(config_file)
                    \subseteq supported_device_classes)
           \/ \E i \in DOMAIN Definitions : ConstructionFails(Definitions[i]))
       => (raised # NoError /\ ~bridge.exists)
    /\ bridge.exists => Len(bridge.devices) = Len(Definitions)

\* the constructor has built a sensor and then failed on a device whose
\* hardware module is not imported
C15_Witness ==
    /\ Ended("DeviceBridge")
    /\ raised = "ImportError"
    /\ Len(Definitions) = 2
    /\ ~ConstructionFails(Definitions[1])
    /\ ConstructionFails(Definitions[2])

\* C16: an inbound message whose handler raised: _on_message returned
\* normally, the dispatch table, the loop, the subscription and every other
\* device are what they were; and after such a message every message on a
\* topic with a handler, with a payload that is text, is given to that
\* handler.
C16_HandlerFaultIsolated ==
    /\ (Ended("_on_message") /\ op.invoked # NoHandler /\ op.fault # NoError)
       => /\ raised = NoError
          /\ bridge.subscribed_channels_dict
                 = op.bridge_before.subscribed_channels_dict
          /\ bridge.loop = op.bridge_before.loop
          /\ bridge.subscriptions = op.bridge_before.subscriptions
          /\ DOMAIN bridge.devices = DOMAIN op.bridge_before.devices
          /\ \A i \in DOMAIN bridge.devices :
                 bridge.devices[i].uid # op.invoked.uid
                 => bridge.devices[i] = op.bridge_before.devices[i]
    /\ (/\ Ended("_on_message") /\ faulted /\ op.msg.payload.utf8
        /\ op.msg.topic \in DOMAIN op.bridge_before.subscribed_channels_dict
        /\ op.bridge_before.subscribed_channels_dict[op.msg.topic].on_message
               # "None")
       => op.invoked = op.bridge_before.subscribed_channels_dict[op.msg.topic]

\* after a message whose handler raised, the handler of a message has
\* returned and has changed its device
C16_Witness ==
    /\ Ended("_on_message")
    /\ faulted
    /\ op.invoked # NoHandler
    /\ op.fault = NoError
    /\ bridge # op.bridge_before

\* C17: an inbound message on a topic that is no key of the dispatch table,
\* or whose entry has no handler: _on_message returns normally, calls no
\* handler, publishes nothing and leaves the bridge and its devices as
\* they were.
C17_UnhandledIsDropped ==
    (/\ Ended("_on_message")
     /\ \/ op.msg.topic \notin DOMAIN op.bridge_before.subscribed_channels_dict
        \/ op.bridge_before.subscribed_channels_dict[op.msg.topic].on_message
               = "None")
    => /\ raised = NoError
       /\ op.invoked = NoHandler
       /\ op.published = <<>>
       /\ bridge = op.bridge_before

\* a state echo of a device, with a payload that is no text, was dropped
C17_Witness ==
    /\ Ended("_on_message")
    /\ op.msg.topic \in DOMAIN op.bridge_before.subscribed_channels_dict
    /\ op.bridge_before.subscribed_channels_dict[op.msg.topic].on_message = "None"
    /\ ~op.msg.payload.utf8

\* C19: configure_devices on a bridge of N devices returns normally after N
\* publishes, the i-th the discovery payload of the i-th device as JSON on
\* its discovery topic.
C19_AnnouncesEveryDevice ==
    Ended("configure_devices")
    => /\ raised = NoError
       /\ Len(op.published) = Len(bridge.devices)
       /\ \A i \in DOMAIN bridge.devices :
              /\ i \in DOMAIN op.published
              /\ op.published[i].topic
                     = get_discovery(bridge.devices[i].device)[1]
              /\ op.published[i].payload
                     = JsonDumps(get_discovery(bridge.devices[i].device)[2])

\* C20: delete_devices on a bridge of N devices returns after N publishes,
\* every one with an empty payload, one on the discovery topic of every
\* device, and leaves the configuration file and the bridge as they were.
C20_RetractsEveryDevice ==
    Ended("delete_devices")
    => /\ raised = NoError
       /\ Len(op.published) = Len(bridge.devices)
       /\ \A k \in DOMAIN op.published : op.published[k].payload = PyStr("")
       /\ \A i \in DOMAIN bridge.devices :
              Cardinality({k \in DOMAIN op.published :
                              op.published[k].topic
                                  = get_discovery(bridge.devices[i].device)[1]})
                  = 1
       /\ bridge = op.bridge_before
       /\ config_file = before

\* delete_devices has returned on a bridge of two devices
C20_Witness ==
    /\ Ended("delete_devices")
    /\ Len(bridge.devices) = 2
    /\ Len(op.published) = 2

---------------------------------------------------------------------------
(* Vocabulary of the properties of the devices *)

\* the text ends with the suffix
EndsWith(text, suffix) ==
    /\ Len(text) >= Len(suffix)
    /\ SubSeq(text, Len(text) - Len(suffix) + 1, Len(text)) = suffix

\* the text begins with the prefix
BeginsWith(text, prefix) ==
    /\ Len(text) >= Len(prefix)
    /\ SubSeq(text, 1, Len(prefix)) = prefix

\* a channel that carries commands to the device
CommandChannel(channel) ==
    \/ channel.name = "command_topic"
    \/ \E suffix \in {"set", "say", "command"} : EndsWith(channel.topic, suffix)

\* the class name and the classes of the devices of the bridge
DeviceClasses == {bridge.devices[i].device.cls : i \in DOMAIN bridge.devices}

\* the category of the discovery topic of a definition
PublicClass(item) ==
    IF item.cls = "ArbitrarySensor" THEN "sensor"
    ELSE Format(item.device_settings["device_class"])

---------------------------------------------------------------------------
(* C21..C30: the devices, the watcher and the forced merge *)

\* C21: every device of a bridge declares the channel state_topic without a
\* handler, and every command channel of it (command_topic, or a topic that
\* ends in set, say or command) has a handler; so for the bridge of one
\* device of every supported class.
C21_StateAndCommandChannels ==
    bridge.exists
    => \A i \in DOMAIN bridge.devices :
          LET channels == bridge.devices[i].device.operation_topics
          IN  /\ \E k \in DOMAIN channels :
                     /\ channels[k].name = "state_topic"
                     /\ channels[k].on_message = "None"
              /\ \A k \in DOMAIN channels :
                     /\ channels[k].name = "state_topic"
                            => channels[k].on_message = "None"
                     /\ CommandChannel(channels[k])
                            => channels[k].on_message # "None"

\* the bridge of one device of every supported class has been constructed
C21_Witness ==
    /\ Ended("DeviceBridge")
    /\ bridge.exists
    /\ DeviceClasses = supported_device_classes
    /\ Len(bridge.devices) = Cardinality(supported_device_classes)

C23_SetValuePublishesOnce ==
    /\ (/\ Ended("DeviceBridge")
        /\ Definitions # <<>>
        /\ \A i \in DOMAIN Definitions : Definitions[i].cls = "ArbitrarySensor")
       => op.published = <<>>
    /\ Ended("set_value")
       => LET sensor == op.bridge_before.devices[op.device].device
              settings == ReadMqttSettings(config_file)
              state_topic == Format(settings["operating_prefix"]) \o "/"
                                 \o Format(settings["bridge_name"]) \o "/"
                                 \o get_id(sensor) \o "/state"
          IN  /\ (op.force_update \/ ~PyEq(sensor.last_value, op.value))
                     => /\ Len(op.published) = 1
                        /\ op.published[1].topic = state_topic
                        /\ op.published[1].payload = JsonDumpsValue(op.value)
                        /\ op.value = PyFloat("23.5")
                               => op.published[1].payload
                                      = PyStr("{\"value\": 23.5}")
              /\ (~op.force_update /\ sensor.last_value = op.value)
                     => op.published = <<>>

\* set_value of a value has published, and the same call without force has
\* just returned
C23_Witness ==
    /\ Ended("set_value")
    /\ ~op.force_update
    /\ op.value = PyFloat("23.5")
    /\ op.bridge_before.devices[op.device].device.last_value = PyFloat("23.5")

\* the message is a command for a SubprocessCall of the bridge
CommandForCall(b, msg, text) ==
    /\ msg.payload = [utf8 |-> TRUE, text |-> text]
    /\ msg.topic \in DOMAIN b.subscribed_channels_dict
    /\ b.subscribed_channels_dict[msg.topic].on_message = "_handle_command"
    /\ b.devices[DeviceIndex(b.devices,
            b.subscribed_channels_dict[msg.topic].uid)].device.cls
           = "SubprocessCall"

\* the processes of the host that run
Running(b) == {k \in DOMAIN b.processes : b.processes[k].status = "running"}

\* the observation threads that have not come to their end
Observing(b) == {k \in DOMAIN b.threads : b.threads[k].at # "done"}

\* ON for a device whose process runs is refused: no process and no thread
\* is started, and the process is left as it is
OnWhileRunningRefused ==
    (/\ Ended("_on_message")
     /\ CommandForCall(op.bridge_before, op.msg, "ON")
     /\ Running(op.bridge_before) # {})
    => /\ Len(bridge.processes) = Len(op.bridge_before.processes)
       /\ Len(bridge.threads) = Len(op.bridge_before.threads)
       /\ Running(op.bridge_before) \subseteq Running(bridge)
       /\ op.fault = NoError

\* a device has at most one process that runs and one thread that observes
AtMostOneProcess ==
    /\ Cardinality(Running(bridge)) <= 1
    /\ Cardinality(Observing(bridge)) <= 1

\* OFF that is received when no process runs raises nothing in the handler
OffWhileStoppedRaisesNothing ==
    (/\ Ended("_on_message")
     /\ CommandForCall(op.bridge_before, op.msg, "OFF")
     /\ Running(op.bridge_before) = {})
    => op.fault = NoError

\* C24: a SubprocessCall that receives ON while its process runs refuses
\* the command and leaves the process as it is, at most one process and one
\* observation thread exist for a device under every interleaving, and OFF
\* that is received while no process runs raises no error.
C24_NoMultirunAndOffIsSafe ==
    /\ OnWhileRunningRefused
    /\ AtMostOneProcess
    /\ OffWhileStoppedRaisesNothing

\* the publishes of the observation threads with the payload
Published(b, text) ==
    {j \in DOMAIN b.thread_published :
        b.thread_published[j].payload = PyStr(text)}

\* the observation thread of process k has published OFF and has come to
\* its end, and the device no longer holds process k as its running one
WatcherFinished(k) ==
    /\ k \in DOMAIN bridge.threads
    /\ bridge.threads[k].at = "done"
    /\ Cardinality(Published(bridge, "OFF")) >= k
    /\ bridge.devices[ThreadDevice(bridge, k)].device.running_process # k

\* process k was started and has exited or was killed
Ended_Process(k) ==
    /\ k \in DOMAIN bridge.processes
    /\ bridge.processes[k].status # "running"

CallStateTopics(b) ==
    {ChannelTopic(b.devices[i].device, "state_topic") :
        i \in {d \in DOMAIN b.devices : b.devices[d].device.cls = "SubprocessCall"}}

\* what the observation threads published is ON, OFF, ON, OFF, ... on the
\* state topic, one ON at most for a process that was started and one OFF
\* at most for a process that ended
Alternates ==
    /\ \A j \in DOMAIN bridge.thread_published :
           /\ bridge.thread_published[j].topic \in CallStateTopics(bridge)
           /\ bridge.thread_published[j].payload
                  = IF j % 2 = 1 THEN PyStr("ON") ELSE PyStr("OFF")
    /\ Cardinality(Published(bridge, "ON")) <= Len(bridge.processes)
    /\ Cardinality(Published(bridge, "OFF"))
           <= Len(bridge.processes) - Cardinality(Running(bridge))

\* ON for a device that holds no process starts one, when the file can be
\* executed
OnIsAccepted ==
    (/\ Ended("_on_message")
     /\ CommandForCall(op.bridge_before, op.msg, "ON")
     /\ \A i \in DOMAIN op.bridge_before.devices :
            LET device == op.bridge_before.devices[i].device
            IN  device.cls = "SubprocessCall"
                => device.running_process = 0 /\ Popen(device.call) = NoError)
    => /\ Len(bridge.processes) = Len(op.bridge_before.processes) + 1
       /\ Len(bridge.threads) = Len(op.bridge_before.threads) + 1

\* C29: the messages on the state topic of a SubprocessCall are ON, OFF, ON,
\* OFF, ... from the first; a process that was started is followed by its
\* one ON; a process that exited or was killed is followed by its one OFF
\* and by the device holding no process, when the observation thread is
\* scheduled fairly; and a device that holds no process accepts ON.
C29_StateAlternates ==
    /\ []Alternates
    /\ []OnIsAccepted
    /\ \A k \in 1..MaxSpawns :
           /\ (k \in DOMAIN bridge.processes)
                  ~> (Cardinality(Published(bridge, "ON")) >= k)
           /\ Ended_Process(k)
                  ~> (/\ Cardinality(Published(bridge, "OFF")) >= k
                      /\ \/ Len(bridge.processes) > k
                         \/ \A i \in DOMAIN bridge.devices :
                                bridge.devices[i].device.cls = "SubprocessCall"
                                => bridge.devices[i].device.running_process = 0)

\* the second process of a device has ended and ON, OFF, ON, OFF was
\* published
C29_Witness ==
    /\ Len(bridge.thread_published) = 4
    /\ Len(bridge.processes) = 2
    /\ Running(bridge) = {}
    /\ \E k \in DOMAIN bridge.processes : bridge.processes[k].status = "killed"

\* the warning of an unsubscribed channel is logged exactly for the topics
\* that the dispatch table does not hold
WarningIffUnknownTopic ==
    Ended("_on_message")
    => ((\E k \in DOMAIN op.logged : op.logged[k].level = "WARNING")
           <=> op.msg.topic \notin DOMAIN op.bridge_before.subscribed_channels_dict)

\* an exception of a handler is logged with the topic and the payload
HandlerFaultNamesMessage ==
    (Ended("_on_message") /\ op.invoked # NoHandler /\ op.fault # NoError)
    => \E k \in DOMAIN op.logged :
           /\ op.logged[k].level = "ERROR"
           /\ op.logged[k].topic = op.msg.topic
           /\ op.logged[k].payload = op.msg.payload

\* C26: _on_message logs the warning of an unsubscribed channel if and only
\* if the topic of the message is not in the dispatch table, and it logs an
\* exception raised inside a handler as an error that names the topic and
\* the payload of the message.
C26_ClassifiesEveryMessage ==
    /\ WarningIffUnknownTopic
    /\ HandlerFaultNamesMessage

\* the keys of the registry, in their order
RegistryOrder(b) == [i \in DOMAIN b.devices |-> b.devices[i].uid]

\* the channels the devices declare
DeclaredChannels(b) ==
    [i \in DOMAIN b.devices |-> b.devices[i].device.operation_topics]

\* C27: once the constructor has returned the bridge, no step of any
\* operation or thread adds, removes or changes an entry of the dispatch
\* table, a key of the registry or a channel a device declares.
C27_TablesAreFixed ==
    [][bridge.exists
       => /\ bridge'.exists
          /\ bridge'.subscribed_channels_dict = bridge.subscribed_channels_dict
          /\ RegistryOrder(bridge') = RegistryOrder(bridge)
          /\ DeclaredChannels(bridge') = DeclaredChannels(bridge)]_vars

\* a handler has raised, an observation thread has come to its end, and
\* set_value has just published
C27_Witness ==
    /\ Ended("set_value")
    /\ op.published # <<>>
    /\ faulted
    /\ \E k \in DOMAIN bridge.threads : bridge.threads[k].at = "done"

\* C28: when the constructor of DeviceBridge has returned or raised, every
\* device definition it read from the file holds the keys and the values
\* the file holds for it.
C28_DefinitionsNotMutated ==
    Ended("DeviceBridge") => op.remote_devices = Definitions


\* C30: a forced update_config that returned normally, called once more
\* with the same devices and settings, leaves the file the first call left.
C30_ForcedMergeIdempotent ==
    (Returned /\ call.force_update /\ raised = NoError)
    => update_config(config_file, call.devices, call.mqtt_settings, TRUE).file
           = config_file

---------------------------------------------------------------------------
(* C31..C38: inversion, optional settings and attributes, the first value,
   the log topic and the process that has ended *)

\* the message is a command for an RpiGpio switch of the bridge
CommandForSwitch(b, msg) ==
    /\ msg.payload.utf8
    /\ msg.topic \in DOMAIN b.subscribed_channels_dict
    /\ b.subscribed_channels_dict[msg.topic].on_message = "_handle_command"
    /\ b.devices[DeviceIndex(b.devices,
            b.subscribed_channels_dict[msg.topic].uid)].device.cls = "RpiGpio"

\* the switch the message is for, in the bridge b
SwitchOf(b, msg) ==
    b.devices[DeviceIndex(b.devices,
        b.subscribed_channels_dict[msg.topic].uid)].device

\* C31: for a command ON or OFF the state _handle_command of an RpiGpio
\* publishes is the state _handle_pinchange publishes for the level the
\* command gave the pin, and it is the command, inverted or not.
C31_InversionIsSymmetric ==
    (/\ Ended("_on_message")
     /\ CommandForSwitch(op.bridge_before, op.msg)
     /\ op.msg.payload.text \in {"ON", "OFF"})
    => LET switch == SwitchOf(bridge, op.msg)
           level == IF switch.gpiozero_device.value = 1 THEN "ON" ELSE "OFF"
       IN  /\ op.published = RpiGpio_handle_pinchange(switch, level).published
           /\ op.published = _update(switch, "state_topic",
                                     PyStr(op.msg.payload.text))

\* the file with the settings update_config does not ask for added to those
\* it holds
WithOptionalSettings(file) ==
    [file EXCEPT !.content.mqtt_settings =
        DictUpdate([key \in {"user", "pw", "logging"} |->
                       EXAMPLE_MQTT_SETTINGS[key]], @)]

\* C32: a file update_config created is read by the constructor of
\* DeviceBridge without a KeyError of a settings field: when the
\* constructor raises KeyError, it raises it too for the same file with
\* the credentials and logging added.
C32_AcceptedSettingsLoad ==
    (Ended("DeviceBridge") /\ config_file.is_file /\ raised = "KeyError")
    => DeviceBridge__init__(WithOptionalSettings(config_file), imported).raised
           = "KeyError"

\* the fields of the discovery payload that identify the device
IdentityFields == {"name", "unique_id", "object_id", "device"}

\* the optional attributes of a definition, none when it has no mapping of
\* them
OptAttrItems(device_settings) ==
    IF /\ "opt_attr" \in DOMAIN device_settings
       /\ device_settings["opt_attr"].type = "dict"
    THEN device_settings["opt_attr"].items
    ELSE <<>>

\* C33: every optional attribute of a definition that is not named like an
\* identity field is in the discovery payload of the device with its
\* value, also when another optional attribute is named like an identity
\* field; and the payload's name, unique_id, object_id, device group and
\* channel topics are those of a definition without optional attributes.
C33_OptAttrApplied ==
    bridge.exists
    => \A i \in DOMAIN bridge.devices :
          LET device == bridge.devices[i].device
              item == Definitions[i]
              payload == get_discovery(device)[2]
              items == OptAttrItems(item.device_settings)
              plain == get_discovery(
                           NewDevice(item.cls,
                               DictWithout(item.device_settings, "opt_attr"),
                               ReadMqttSettings(config_file), imported).self)[2]
          IN  /\ \A k \in DOMAIN items :
                     items[k].key \notin IdentityFields
                     => /\ items[k].key \in DOMAIN payload
                        /\ payload[items[k].key] = items[k].value
              /\ \A key \in IdentityFields
                               \cup {device.operation_topics[c].name :
                                         c \in DOMAIN device.operation_topics} :
                     payload[key] = plain[key]

\* C35: set_value without force publishes if and only if the value is not
\* equal to the value published last, and always when the sensor has not
\* published yet, None included; set_value with force, the default, always
\* publishes.
C35_PublishesIffChanged ==
    Ended("set_value")
    => LET sensor == op.bridge_before.devices[op.device].device
           fresh == op.device \notin op.bridge_before.value_published
       IN  (op.published # <<>>)
               <=> \/ op.force_update
                   \/ fresh
                   \/ ~PyEq(sensor.last_value, op.value)

\* the topics the devices of the bridge publish to: the channels without
\* a handler and the log topics
PublishTopics(b) ==
    UNION {{b.devices[i].device.operation_topics[c].topic :
               c \in {k \in DOMAIN b.devices[i].device.operation_topics :
                         b.devices[i].device.operation_topics[k].on_message
                             = "None"}} :
           i \in DOMAIN b.devices}
    \cup LogTopics(b)

\* C36: every topic a device of the bridge publishes to is a key of the
\* dispatch table, and a message with such a topic is not logged as an
\* unsubscribed channel.
C36_OwnTopicsAreKnown ==
    /\ bridge.exists
           => PublishTopics(bridge) \subseteq DOMAIN bridge.subscribed_channels_dict
    /\ (Ended("_on_message") /\ op.msg.topic \in PublishTopics(op.bridge_before))
           => \A k \in DOMAIN op.logged : op.logged[k].level # "WARNING"

\* C34: a command other than ON and OFF leaves the pin of an RpiGpio
\* switch as it is and publishes no state other than ON and OFF, inverted
\* or not.
C34_OtherCommandsChangeNothing ==
    (/\ Ended("_on_message")
     /\ CommandForSwitch(op.bridge_before, op.msg)
     /\ op.msg.payload.text \notin {"ON", "OFF"})
    => /\ SwitchOf(bridge, op.msg).gpiozero_device
              = SwitchOf(op.bridge_before, op.msg).gpiozero_device
       /\ \A k \in DOMAIN op.published :
              op.published[k].topic
                     = ChannelTopic(SwitchOf(bridge, op.msg), "state_topic")
              => op.published[k].payload \in {PyStr("ON"), PyStr("OFF")}

\* C37: _handle_command of a SubprocessCall never raises for OFF, however
\* its steps interleave with those of the observation thread.
C37_OffNeverRaises ==
    (Ended("_on_message") /\ CommandForCall(op.bridge_before, op.msg, "OFF"))
    => op.fault = NoError

\* the SubprocessCall the message is for, in the bridge b
CallOf(b, msg) ==
    b.devices[DeviceIndex(b.devices,
        b.subscribed_channels_dict[msg.topic].uid)].device

\* C38: a SubprocessCall refuses ON only while a process it started is
\* alive: ON that is received when the process has exited or was killed
\* starts a new process.
C38_RefusesOnlyWhileAlive ==
    (/\ Ended("_on_message")
     /\ CommandForCall(op.bridge_before, op.msg, "ON")
     /\ Popen(CallOf(op.bridge_before, op.msg).call) = NoError
     /\ Running(op.bridge_before) = {})
    => /\ Len(bridge.processes) = Len(op.bridge_before.processes) + 1
       /\ Running(bridge) # {}

=======================================================================
